---- MODULE Spec2Model ----
(***************************************************************************)
(* Model of the OpenAPI 3.0.0 modeler (src/types/OpenApi.ts, lines 547 to  *)
(* 1141): parsePath, checkParameters and run.                              *)
(*                                                                         *)
(* A JavaScript string that the code takes apart (split, sort, match,      *)
(* JSON.stringify) is a sequence of one-character strings. A string that   *)
(* the code only compares or passes through is a TLA+ string.              *)
(***************************************************************************)
EXTENDS Integers, Sequences, FiniteSets, TLC

VARIABLES pc, path, parsed, parameter, unique, openapiDefinition, result,
          document, heap, hits, cursor

vars == <<pc, path, parsed, parameter, unique, openapiDefinition, result,
          document, heap, hits, cursor>>

\* ------------------------------------------------------------------ bounds
\* longest path template given to parsePath on its own
MaxPathLen == 5
\* longest parameter list given to checkParameters on its own
MaxList == 3
\* most parameters one path item declares, path level and operation level together
MaxParams == 3
\* most responses one operation declares
MaxResponses == 3
\* most security requirement objects of a document and its operation together
MaxRequirements == 2
\* deepest nesting of the schemas of a parameter
MaxDepth == 2
\* most nodes of a document that carry a $ref
MaxRefs == 2

\* the longest pointer of a $ref whose segments are decoded
MaxPointerLen == 4

\* -------------------------------------------------------- outcomes of a call
\* a call either returns a value or throws new Error(message)
Ok(v) == [ok |-> TRUE, error |-> "", detail |-> "", value |-> v]

\* detail is the value the message interpolates
Throw(message, detail) == [ok |-> FALSE, error |-> message, detail |-> detail, value |-> <<>>]

\* an optional field: undefined, or present with a value
Absent == [present |-> FALSE]

Some(v) == [present |-> TRUE, value |-> v]

\* ------------------------------------------------------------ string helpers
\* UTF-16 code unit of the characters the model uses (String.prototype.sort order)
CharCode ==
  [c \in {"\"", ",", "/", "0", "1", "2", "4", "5", "9", "X", "[", "\\", "]",
          "a", "b", "c", "d", "e", "f", "h", "i", "k", "l", "o", "p", "q", "r",
          "s", "t", "u", "x", "y", "{", "}"} |->
     CASE c = "\"" -> 34 [] c = "," -> 44 [] c = "/" -> 47
       [] c = "0" -> 48 [] c = "1" -> 49 [] c = "2" -> 50 [] c = "4" -> 52
       [] c = "5" -> 53 [] c = "9" -> 57 [] c = "X" -> 88
       [] c = "[" -> 91 [] c = "\\" -> 92 [] c = "]" -> 93
       [] c = "a" -> 97 [] c = "b" -> 98 [] c = "c" -> 99 [] c = "d" -> 100
       [] c = "e" -> 101 [] c = "f" -> 102 [] c = "h" -> 104 [] c = "i" -> 105
       [] c = "k" -> 107 [] c = "l" -> 108 [] c = "o" -> 111 [] c = "p" -> 112
       [] c = "q" -> 113 [] c = "r" -> 114 [] c = "s" -> 115 [] c = "t" -> 116
       [] c = "u" -> 117 [] c = "x" -> 120 [] c = "y" -> 121
       [] c = "{" -> 123 [] c = "}" -> 125]

\* s < t in the order of the default Array.prototype.sort comparison
RECURSIVE StrLess(_, _)
StrLess(s, t) ==
  IF t = <<>> THEN FALSE
  ELSE IF s = <<>> THEN TRUE
  ELSE IF CharCode[Head(s)] # CharCode[Head(t)] THEN CharCode[Head(s)] < CharCode[Head(t)]
  ELSE StrLess(Tail(s), Tail(t))

\* String.prototype.split(sep) for a one-character separator
RECURSIVE Split(_, _)
Split(s, sep) ==
  IF \A i \in 1..Len(s) : s[i] # sep THEN <<s>>
  ELSE LET i == CHOOSE j \in 1..Len(s) : s[j] = sep /\ \A k \in 1..(j - 1) : s[k] # sep
       IN <<SubSeq(s, 1, i - 1)>> \o Split(SubSeq(s, i + 1, Len(s)), sep)

\* concatenation of a sequence of sequences
RECURSIVE Flatten(_)
Flatten(ss) == IF ss = <<>> THEN <<>> ELSE Head(ss) \o Flatten(Tail(ss))

\* the outcome of evaluating the calls of rs in order: the first throw, else all values
RECURSIVE Sequenced(_)
Sequenced(rs) ==
  IF rs = <<>> THEN Ok(<<>>)
  ELSE IF ~Head(rs).ok THEN Head(rs)
  ELSE LET rest == Sequenced(Tail(rs))
       IN IF rest.ok THEN Ok(<<Head(rs).value>> \o rest.value) ELSE rest

\* Array.prototype.sort, where less[i][j] says that the comparison puts xs[i] before
\* xs[j]: a stable sort, so an element lands after the smaller ones and after the
\* equal ones that stood before it
SortBy(xs, less) ==
  LET Position(i) ==
        1 + Cardinality({j \in 1..Len(xs) : less[j][i]})
          + Cardinality({j \in 1..(i - 1) : ~less[j][i] /\ ~less[i][j]})
  IN [k \in 1..Len(xs) |-> xs[CHOOSE i \in 1..Len(xs) : Position(i) = k]]

\* the default sort of an array of strings
SortStrings(xs) ==
  SortBy(xs, [i \in 1..Len(xs) |-> [j \in 1..Len(xs) |-> StrLess(xs[i], xs[j])]])

\* JSON.stringify of a string: quoted, with the quote and the backslash escaped
RECURSIVE JsonEscape(_)
JsonEscape(s) ==
  IF s = <<>> THEN <<>>
  ELSE (IF Head(s) \in {"\"", "\\"} THEN <<"\\", Head(s)>> ELSE <<Head(s)>>) \o JsonEscape(Tail(s))

JsonString(s) == <<"\"">> \o JsonEscape(s) \o <<"\"">>

\* the characters of the four parameter locations
LocationChars ==
  [l \in {"query", "header", "path", "cookie"} |->
     CASE l = "query" -> <<"q", "u", "e", "r", "y">>
       [] l = "header" -> <<"h", "e", "a", "d", "e", "r">>
       [] l = "path" -> <<"p", "a", "t", "h">>
       [] l = "cookie" -> <<"c", "o", "o", "k", "i", "e">>]

\* ------------------------------------------------------------------ parsePath
\* the constant after a parameter is not kept
parsePathPartWithoutConstant(part) ==
  LET parts2 == Split(part, "}")
  IN IF Len(parts2) # 2 THEN Throw("invalid path format", "")
     ELSE IF parts2[1] = <<>> THEN Throw("empty parameter names not allowed", "")
     ELSE Ok(<<[type |-> "param", name |-> parts2[1]]>>)

\* one fragment after a "{": its parameter and the constant that follows it
parsePathPart(part) ==
  LET parts2 == Split(part, "}")
  IN IF Len(parts2) # 2 THEN Throw("invalid path format", "")
     ELSE IF parts2[1] = <<>> THEN Throw("empty parameter names not allowed", "")
     ELSE Ok(<<[type |-> "param", name |-> parts2[1]],
               [type |-> "const", value |-> parts2[2]]>>)

parsePath(p) ==
  LET parts1 == Split(p, "{")
      first == [type |-> "const", value |-> Head(parts1)]
      rest == Sequenced([i \in 1..(Len(parts1) - 1) |-> parsePathPart(parts1[i + 1])])
      NotEmptyConst(x) == x.type # "const" \/ x.value # <<>>
  IN IF rest.ok THEN Ok(SelectSeq(<<first>> \o Flatten(rest.value), NotEmptyConst))
     ELSE rest

\* ----------------------------------------------------- parsePath on its own
PathChars == {"{", "}", "a", "/"}

Templates == UNION {[1..n -> PathChars] : n \in 0..MaxPathLen}

InitPath ==
  /\ pc = "start"
  /\ path \in Templates
  /\ parsed = <<>>
  /\ parameter = <<>>
  /\ unique = FALSE
  /\ openapiDefinition = <<>>
  /\ result = <<>>
  /\ document = <<>>
  /\ heap = <<>>
  /\ hits = <<>>
  /\ cursor = 0

CallParsePath ==
  /\ pc = "start"
  /\ pc' = "done"
  /\ parsed' = parsePath(path)
  /\ UNCHANGED <<path, parameter, unique, openapiDefinition, result,
                 document, heap, hits, cursor>>

NextPath == CallParsePath

SpecPath == InitPath /\ [][NextPath]_vars

\* ------------------------------------------------------------ checkParameters
\* JSON.stringify([parameter.name, parameter.location])
getParameterKey(p) ==
  <<"[">> \o JsonString(p.name) \o <<",">> \o JsonString(LocationChars[p.location]) \o <<"]">>

\* the keys are scanned for equal neighbours without having been sorted
checkParametersUnsorted(ps) ==
  LET keys == [i \in 1..Len(ps) |-> getParameterKey(ps[i])]
  IN ~(\E index \in 1..Len(keys) : index # 1 /\ keys[index] = keys[index - 1])

checkParameters(ps) ==
  LET keys == SortStrings([i \in 1..Len(ps) |-> getParameterKey(ps[i])])
  IN ~(\E index \in 1..Len(keys) : index # 1 /\ keys[index] = keys[index - 1])

\* ----------------------------------------------- checkParameters on its own
NameChars == {"a", "\""}

ListNames == UNION {[1..n -> NameChars] : n \in 1..2}

ListParameters == [name : ListNames, location : {"query", "header"}]

InitCheck ==
  /\ pc = "start"
  /\ parameter \in UNION {[1..n -> ListParameters] : n \in 0..MaxList}
  /\ unique = FALSE
  /\ path = <<>>
  /\ parsed = <<>>
  /\ openapiDefinition = <<>>
  /\ result = <<>>
  /\ document = <<>>
  /\ heap = <<>>
  /\ hits = <<>>
  /\ cursor = 0

CallCheckParameters ==
  /\ pc = "start"
  /\ pc' = "done"
  /\ unique' = checkParameters(parameter)
  /\ UNCHANGED <<path, parsed, parameter, openapiDefinition, result,
                 document, heap, hits, cursor>>

NextCheck == CallCheckParameters

SpecCheck == InitCheck /\ [][NextCheck]_vars

\* ------------------------------------------------------------------------ run
httpMethods == <<"get", "put", "post", "delete", "options", "head", "patch", "trace">>

Digits == {"0", "1", "2", "3", "4", "5", "6", "7", "8", "9"}

\* a property name that is an array index: Object.keys lists these first, ascending
IsArrayIndex(k) ==
  /\ k # <<>>
  /\ \A i \in 1..Len(k) : k[i] \in Digits
  /\ (Len(k) = 1 \/ k[1] # "0")

DigitValue(c) == CHOOSE n \in 0..9 : ToString(n) = c

RECURSIVE NumericValue(_)
NumericValue(k) ==
  IF k = <<>> THEN 0 ELSE 10 * NumericValue(SubSeq(k, 1, Len(k) - 1)) + DigitValue(k[Len(k)])

\* keys(o): Object.keys of an object written as the entries <<[key, value], ...>> in
\* declaration order: the array indices in ascending order, then the other names
keys(o) ==
  LET names == [i \in 1..Len(o) |-> o[i].key]
      indices == SelectSeq(names, IsArrayIndex)
      NotArrayIndex(k) == ~IsArrayIndex(k)
  IN SortBy(indices, [i \in 1..Len(indices) |-> [j \in 1..Len(indices) |->
                        NumericValue(indices[i]) < NumericValue(indices[j])]])
       \o SelectSeq(names, NotArrayIndex)

\* o[name] for a declared name
Get(o, name) == o[CHOOSE i \in 1..Len(o) : o[i].key = name].value

\* the names every object inherits from Object.prototype (those the model uses)
ObjectPrototypeNames ==
  { <<"c", "o", "n", "s", "t", "r", "u", "c", "t", "o", "r">>,
    <<"t", "o", "S", "t", "r", "i", "n", "g">> }

\* o[name] for any name: the own property, else the member inherited from
\* Object.prototype, else undefined
Lookup(o, name) ==
  IF \E i \in 1..Len(o) : o[i].key = name THEN Some(Get(o, name))
  ELSE IF name \in ObjectPrototypeNames THEN Some([inherited |-> name])
  ELSE Absent

\* the parsed server of a server object whose url has been parsed
parsedServer(server, urlPrefix) ==
  IF urlPrefix.ok
  THEN Ok([urlPrefix |-> urlPrefix.value,
           variables |-> IF server.variables.present THEN server.variables.value ELSE {}])
  ELSE urlPrefix

parseServer(server) == parsedServer(server, parsePath(server.url))

\* an outcome whose value is wrapped as a present optional
Present(r) == IF r.ok THEN Ok(Some(r.value)) ELSE r

\* servers ? servers.map(parseServer) : undefined
parseServers(servers) ==
  IF ~servers.present THEN Ok(Absent)
  ELSE Present(Sequenced([i \in 1..Len(servers.value) |-> parseServer(servers.value[i])]))

\* the record r with the field f set to v
With(r, f, v) == [k \in DOMAIN r |-> IF k = f THEN v ELSE r[k]]

\* a schema object that declares at most a type
SchemaObject(type) ==
  [type |-> type, format |-> Absent, allOf |-> Absent, oneOf |-> Absent, anyOf |-> Absent,
   not |-> Absent, items |-> Absent, properties |-> Absent, additionalProperties |-> Absent]

\* the value of additionalProperties is a boolean, not a schema
IsBoolean(x) == "boolean" \in DOMAIN x

\* schema.type || "object"
typeOrObject(schema) ==
  IF schema.type.present /\ schema.type.value # "" THEN schema.type.value ELSE "object"

RECURSIVE parseSchema(_)

\* schemas ? schemas.map(parseSchema) : undefined
parseSchemas(schemas) ==
  IF ~schemas.present THEN Ok(Absent)
  ELSE Present(Sequenced([i \in 1..Len(schemas.value) |-> parseSchema(schemas.value[i])]))

\* schema ? parseSchema(schema) : undefined
parseSchemaEx(schema) ==
  IF ~schema.present THEN Ok(Absent) ELSE Present(parseSchema(schema.value))

\* allOf, oneOf, anyOf and not of a schema, parsed in the order of the base object
parseSchemaBase(schema) ==
  Sequenced(<<parseSchemas(schema.allOf), parseSchemas(schema.oneOf),
              parseSchemas(schema.anyOf), parseSchemaEx(schema.not)>>)

\* a parsed property under its name
parsedProperty(name, property) ==
  IF property.ok THEN Ok([key |-> name, value |-> property.value]) ELSE property

\* schema.properties || {}
propertiesOrEmpty(schema) ==
  IF schema.properties.present THEN schema.properties.value ELSE <<>>

\* the loop over the property names of an object schema
parseProperties(props) ==
  Sequenced([i \in 1..Len(props) |->
               parsedProperty(keys(props)[i], parseSchema(Get(props, keys(props)[i])))])

\* additionalProperties of an object schema: true stands for the empty schema, false
\* for none
parseAdditionalProperties(schema) ==
  IF ~schema.additionalProperties.present THEN Ok(Absent)
  ELSE IF IsBoolean(schema.additionalProperties.value)
  THEN IF schema.additionalProperties.value.boolean
       THEN Present(parseSchema(SchemaObject(Absent)))
       ELSE Ok(Absent)
  ELSE Present(parseSchema(schema.additionalProperties.value))

\* items of an array schema; parseSchema(undefined) reads a property of undefined
parseItems(schema) ==
  IF ~schema.items.present THEN Throw("TypeError", "")
  ELSE Present(parseSchema(schema.items.value))

\* the result of parseSchema for a type; a field the result of the type does not have
\* is absent
parsedSchema(type, format, base, items, properties, additionalProperties) ==
  Ok([type |-> type, format |-> format,
      allOf |-> base[1], oneOf |-> base[2], anyOf |-> base[3], not |-> base[4],
      items |-> items, properties |-> properties,
      additionalProperties |-> additionalProperties])

\* case "object"
parsedObject(base, properties, additionalProperties) ==
  IF ~properties.ok THEN properties
  ELSE IF ~additionalProperties.ok THEN additionalProperties
  ELSE parsedSchema("object", Absent, base, Absent, Some(properties.value),
                    additionalProperties.value)

\* case "array"
parsedArray(base, items) ==
  IF ~items.ok THEN items ELSE parsedSchema("array", Absent, base, items.value, Absent, Absent)

\* the switch over the type of a schema whose base has been parsed
parseSchemaOfType(schema, type, base) ==
  IF ~base.ok THEN base
  ELSE CASE type \in {"string", "integer", "number"} ->
              parsedSchema(type, schema.format, base.value, Absent, Absent, Absent)
         [] type = "object" ->
              parsedObject(base.value, parseProperties(propertiesOrEmpty(schema)),
                           parseAdditionalProperties(schema))
         [] type = "array" -> parsedArray(base.value, parseItems(schema))
         [] type \in {"boolean", "null"} ->
              parsedSchema(type, Absent, base.value, Absent, Absent, Absent)
         [] OTHER -> Throw("unknown type", type)

\* the fields title, enum, nullable and the constraints are left out
parseSchema(schema) == parseSchemaOfType(schema, typeOrObject(schema), parseSchemaBase(schema))

\* x || fallback for a string or undefined x; style names are never empty
OrDefault(x, fallback) == IF x.present THEN x.value ELSE fallback

\* the style of a parameter: declared, or by location
styleOf(p) ==
  OrDefault(p.style, IF p.in = "query" \/ p.in = "cookie" THEN "form" ELSE "simple")

\* parameter.explode || (style === "form")
explodeOf(p) == (p.explode.present /\ p.explode.value) \/ styleOf(p) = "form"

\* normalizeFormat(location, obj)
normalizeFormat(location, obj) ==
  LET style == OrDefault(obj.style, IF location = "query" \/ location = "cookie"
                                    THEN "form" ELSE "simple")
  IN [style |-> style, explode |-> (obj.explode.present /\ obj.explode.value) \/ style = "form"]

\* o[key] = v: the entry of the key is overwritten where it stands, a new one is appended
Put(o, key, v) ==
  IF \E i \in 1..Len(o) : o[i].key = key
  THEN [i \in 1..Len(o) |-> IF o[i].key = key THEN [key |-> key, value |-> v] ELSE o[i]]
  ELSE Append(o, [key |-> key, value |-> v])

\* obj.example is truthy
HasExample(obj) == obj.example.present /\ obj.example.value # ""

\* the examples map normalizeExamples returns; it is the examples object of obj itself
\* when obj has one
normalizeExamples(obj) ==
  LET examples == IF obj.examples.present THEN obj.examples.value ELSE <<>>
  IN IF HasExample(obj) THEN Put(examples, <<>>, [value |-> obj.example.value]) ELSE examples

\* obj as normalizeExamples leaves it
normalizeExamplesWritten(obj) ==
  IF obj.examples.present /\ HasExample(obj)
  THEN With(obj, "examples", Some(normalizeExamples(obj)))
  ELSE obj

\* an array gets the media type of an object, whatever its items are
getDefaultMediaTypeOfArrayAsObject(schema) ==
  IF "inherited" \in DOMAIN schema THEN Throw("unexpeced type", "undefined")
  ELSE IF schema.type = "string" /\ schema.format = Some("binary")
  THEN Ok("application/octet-stream")
  ELSE IF schema.type \in {"string", "number", "boolean", "integer", "null"}
  THEN Ok("text/plain")
  ELSE IF schema.type \in {"object", "array"} THEN Ok("application/json")
  ELSE Throw("unexpeced type", schema.type)

\* the schema is a parsed one, or a member a properties object inherits
RECURSIVE getDefaultMediaType(_)
getDefaultMediaType(schema) ==
  IF "inherited" \in DOMAIN schema THEN Throw("unexpeced type", "undefined")
  ELSE IF schema.type = "string" /\ schema.format = Some("binary")
  THEN Ok("application/octet-stream")
  ELSE IF schema.type \in {"string", "number", "boolean", "integer", "null"}
  THEN Ok("text/plain")
  ELSE IF schema.type = "object" THEN Ok("application/json")
  ELSE IF schema.type = "array" THEN getDefaultMediaType(schema.items.value)
  ELSE Throw("unexpeced type", schema.type)

StartsWith(string, prefix) ==
  Len(string) >= Len(prefix) /\ SubSeq(string, 1, Len(prefix)) = prefix

RECURSIVE parseParameterBase(_)

\* the header object becomes a parameter object: name and in are written into it
asParameterObject(name, header) == [name |-> name, in |-> "header"] @@ header

parseHeader(name, header) == parseParameterBase(asParameterObject(name, header))

parseHeaders(headers) ==
  IF ~headers.present THEN Ok(<<>>)
  ELSE Sequenced([i \in 1..Len(keys(headers.value)) |->
                    parseHeader(keys(headers.value)[i],
                                Get(headers.value, keys(headers.value)[i]))])

\* encoding.contentType || getDefaultMediaType(prop)
contentTypeOrDefault(encoding, prop) ==
  IF encoding.contentType.present /\ encoding.contentType.value # ""
  THEN Ok(encoding.contentType.value)
  ELSE getDefaultMediaType(prop.value)

\* the entry of an encoded property whose schema prop has been looked up
parsedEncoding(encodedProp, encoding, prop, contentType, headers) ==
  IF ~prop.present THEN Throw("property does not exist on type", encodedProp)
  ELSE IF ~contentType.ok THEN contentType
  ELSE IF ~headers.ok THEN headers
  ELSE Ok([key |-> encodedProp,
           value |-> [contentType |-> contentType.value,
                      headers |-> headers.value,
                      format |-> normalizeFormat("query", encoding),
                      allowReserved |-> (encoding.allowReserved.present
                                         /\ encoding.allowReserved.value)]])

\* one round of the loop over the encoded properties of a media type
parseEncoding(props, encodingObject, encodedProp) ==
  parsedEncoding(encodedProp, Get(encodingObject, encodedProp), Lookup(props, encodedProp),
                 contentTypeOrDefault(Get(encodingObject, encodedProp),
                                      Lookup(props, encodedProp)),
                 parseHeaders(Get(encodingObject, encodedProp).headers))

\* the media types whose encodings are parsed
HasEncodings(mediaType) ==
  \/ StartsWith(mediaType, <<"m", "u", "l", "t", "i", "p", "a", "r", "t", "/">>)
  \/ mediaType = <<"x", "-", "w", "w", "w", "-", "f", "o", "r", "m", "-",
                   "u", "r", "l", "e", "n", "c", "o", "d", "e", "d">>

\* the encodings of a media type whose schema has been parsed
parseEncodings(mediaType, contentObj, schema) ==
  IF contentObj.encoding.present /\ schema.type = "object" /\ HasEncodings(mediaType)
  THEN Sequenced([i \in 1..Len(keys(contentObj.encoding.value)) |->
                    parseEncoding(schema.properties.value, contentObj.encoding.value,
                                  keys(contentObj.encoding.value)[i])])
  ELSE Ok(<<>>)

\* contentObj.schema || {}
schemaOrEmpty(contentObj) ==
  IF contentObj.schema.present THEN contentObj.schema.value ELSE SchemaObject(Absent)

\* the entry of a media type whose schema and encodings have been parsed
parsedMediaType(mediaType, contentObj, schema, encodings) ==
  IF ~schema.ok THEN schema
  ELSE IF ~encodings.ok THEN encodings
  ELSE Ok([key |-> mediaType,
           value |-> [schema |-> Some(schema.value),
                      encoding |-> encodings.value,
                      examples |-> normalizeExamples(contentObj)]])

\* the round of a media type whose schema has been parsed
parseMediaTypeOf(mediaType, contentObj, schema) ==
  parsedMediaType(mediaType, contentObj, schema,
                  parseEncodings(mediaType, contentObj, schema.value))

\* one round of the loop over the media types of a content object
parseMediaType(content, mediaType) ==
  parseMediaTypeOf(mediaType, Get(content, mediaType),
                   parseSchema(schemaOrEmpty(Get(content, mediaType))))

parseContent(content) ==
  Sequenced([i \in 1..Len(keys(content)) |-> parseMediaType(content, keys(content)[i])])

\* parameter.content ? parseContent(parameter.content) : {}
contentOrEmpty(p) == IF p.content.present THEN parseContent(p.content.value) ELSE Ok(<<>>)

\* the result of parseParameterBase, without the field deprecated, for a parameter whose
\* content and schema have been parsed
parsedParameterBase(p, content, schema) ==
  IF ~content.ok THEN content
  ELSE IF ~schema.ok THEN schema
  ELSE Ok([name |-> p.name,
           description |-> p.description,
           required |-> (p.required.present /\ p.required.value),
           content |-> Put(content.value, <<>>,
                           [schema |-> schema.value,
                            examples |-> normalizeExamples(p),
                            encoding |-> <<>>]),
           format |-> [style |-> styleOf(p), explode |-> explodeOf(p)]])

\* a path parameter is not validated
parseParameterBaseUnvalidated(p) ==
  parsedParameterBase(p, contentOrEmpty(p), parseSchemaEx(p.schema))

parseParameterBase(p) ==
  IF p.in = "path" /\ ~(p.required.present /\ p.required.value)
  THEN Throw("expected required=true on path parameter", "")
  ELSE parsedParameterBase(p, contentOrEmpty(p), parseSchemaEx(p.schema))

\* the parsed base of a parameter with its location
parsedParameter(location, base) ==
  IF base.ok THEN Ok([location |-> location] @@ base.value) ELSE base

\* parseParameter, without the fields allowEmptyValue and allowReserved of a query
\* parameter
parseParameter(p) == parsedParameter(p.in, parseParameterBase(p))

\* parameters ? parameters.map(parseParameter) : undefined
parseParameters(parameters) ==
  IF ~parameters.present THEN Ok(Absent)
  ELSE Present(Sequenced([i \in 1..Len(parameters.value) |->
                            parseParameter(parameters.value[i])]))

\* an empty array counts as undefined
OrElseNonEmpty(x, fallback) == IF x.present /\ x.value # <<>> THEN x.value ELSE fallback

\* x || fallback for an array or undefined x
OrElse(x, fallback) == IF x.present THEN x.value ELSE fallback

\* the merge loop of run: every entry with the key of param is overwritten by param,
\* and param is appended when there was none
\* the parameter is appended whether its key is found or not
mergeParameterAppended(parameters, param) == Append(parameters, param)

mergeParameter(parameters, param) ==
  LET found == \E i \in 1..Len(parameters) : getParameterKey(param) = getParameterKey(parameters[i])
      replaced == [i \in 1..Len(parameters) |->
                     IF getParameterKey(param) = getParameterKey(parameters[i])
                     THEN param ELSE parameters[i]]
  IN IF found THEN replaced ELSE Append(replaced, param)

RECURSIVE mergeParameters(_, _)
mergeParameters(pathParameters, operationParameters) ==
  IF operationParameters = <<>> THEN pathParameters
  ELSE mergeParameters(mergeParameter(pathParameters, Head(operationParameters)),
                       Tail(operationParameters))

\* the sorted names of the parameters with location path
pathParamsOf(parameters) ==
  LET IsPath(x) == x.location = "path"
      located == SelectSeq(parameters, IsPath)
  IN SortStrings([i \in 1..Len(located) |-> located[i].name])

\* the sorted names of the placeholders of a parsed template
pathParamsExpectedOf(p) ==
  LET IsParam(x) == x.type = "param"
      params == SelectSeq(p, IsParam)
  IN SortStrings([i \in 1..Len(params) |-> params[i].name])

\* only the numbers of names are compared
pathParametersMismatchByLength(parameters, p) ==
  Len(pathParamsOf(parameters)) # Len(pathParamsExpectedOf(p))

\* validate path parameters against urlSuffix
pathParametersMismatch(parameters, p) ==
  LET pathParams == pathParamsOf(parameters)
      pathParamsExpected == pathParamsExpectedOf(p)
  IN \/ Len(pathParams) # Len(pathParamsExpected)
     \/ ~(\A i \in 1..Len(pathParams) : pathParams[i] = pathParamsExpected[i])

\* the pattern is matched without regard to case
matchesStatusPatternAnyCase(responseKey) ==
  /\ Len(responseKey) = 3
  /\ \A i \in 1..3 : responseKey[i] \in Digits \cup {"X", "x"}

\* responseKey.match(/^[0-9X]{3}$/)
matchesStatusPattern(responseKey) ==
  /\ Len(responseKey) = 3
  /\ \A i \in 1..3 : responseKey[i] \in Digits \cup {"X"}

\* if (responseKey === "default") responseKey = "XXX"
normalizeResponseKey(responseKey) ==
  IF responseKey = <<"d", "e", "f", "a", "u", "l", "t">> THEN <<"X", "X", "X">> ELSE responseKey

\* the entry of a response whose key has been normalized and whose headers have been
\* parsed
parsedResponse(responseKey, responseObject, headers) ==
  IF ~matchesStatusPattern(responseKey)
  THEN Throw("invalid HTTP status code pattern", responseKey)
  ELSE IF ~headers.ok THEN headers
  ELSE Ok([key |-> responseKey, description |-> responseObject.description,
           headers |-> headers.value])

\* one round of the responses loop
parseResponse(responses, declaredKey) ==
  parsedResponse(normalizeResponseKey(declaredKey), Get(responses, declaredKey),
                 parseHeaders(Get(responses, declaredKey).headers))

\* the number of X characters of a status key
wildcards(key) == Cardinality({i \in 1..Len(key) : key[i] = "X"})

\* the comparison is the other way round
sortResponsesDescending(responses) ==
  SortBy(responses, [i \in 1..Len(responses) |-> [j \in 1..Len(responses) |->
                        wildcards(responses[j].key) < wildcards(responses[i].key)]])

\* responses.sort((a, b) => count of X in a.key - count of X in b.key)
sortResponses(responses) ==
  SortBy(responses, [i \in 1..Len(responses) |-> [j \in 1..Len(responses) |->
                        wildcards(responses[i].key) < wildcards(responses[j].key)]])

\* the parsed responses, sorted when none has thrown
sortedResponses(parsedResponses) ==
  IF parsedResponses.ok THEN Ok(sortResponses(parsedResponses.value)) ELSE parsedResponses

parseResponses(responses) ==
  sortedResponses(Sequenced([i \in 1..Len(keys(responses)) |->
                               parseResponse(responses, keys(responses)[i])]))

\* one round of the loop over the names of a security requirement object
parseSecurityRequirement(securitySchemes, sec, name) ==
  LET securityScheme == Lookup(securitySchemes, name)
  IN IF ~securityScheme.present THEN Throw("security scheme not found", name)
     ELSE Ok([scheme |-> securityScheme.value, scopes |-> Get(sec, name)])

\* security.map(sec => Object.keys(sec).map(...))
parseSecurityAlternatives(securitySchemes, security) ==
  Sequenced([i \in 1..Len(security) |->
     Sequenced([j \in 1..Len(keys(security[i])) |->
        parseSecurityRequirement(securitySchemes, security[i], keys(security[i])[j])])])

\* as parseSecurityRequirements, with an empty list taken for an undeclared one
parseSecurityRequirementsEmptyUndeclared(securitySchemes, security) ==
  IF ~security.present \/ security.value = <<>> THEN Ok(Absent)
  ELSE Present(parseSecurityAlternatives(securitySchemes, security.value))

parseSecurityRequirements(securitySchemes, security) ==
  IF ~security.present THEN Ok(Absent)
  ELSE Present(parseSecurityAlternatives(securitySchemes, security.value))

\* the parsed request body of a request body object whose content has been parsed
parsedRequestBody(requestBody, content) ==
  IF ~content.ok THEN content
  ELSE Ok(Some([description |-> requestBody.description,
                content |-> content.value,
                required |-> (requestBody.required.present /\ requestBody.required.value)]))

\* the request body of an operation, if it declares one
parseRequestBody(requestBody) ==
  IF ~requestBody.present THEN Ok(Absent)
  ELSE parsedRequestBody(requestBody.value, parseContent(requestBody.value.content))

\* the operation whose parts have been parsed: the first part that threw, in the order
\* of the loop body, else the operation
parsedOperation(p, pathServers, pathParameters, security, operationServers, operationParameters, parameters, requestBody, operationSecurity, responses) ==
  IF ~operationServers.ok THEN operationServers
  ELSE IF ~operationParameters.ok THEN operationParameters
  ELSE IF ~checkParameters(pathParameters) THEN Throw("invalid operation parameters", "")
  ELSE IF pathParametersMismatch(parameters, p) THEN Throw("path parameters mismatch", "")
  ELSE IF ~requestBody.ok THEN requestBody
  ELSE IF ~operationSecurity.ok THEN operationSecurity
  ELSE IF ~responses.ok THEN responses
  ELSE Ok([urlSuffix |-> p,
           parameters |-> parameters,
           parameterBody |-> requestBody.value,
           responses |-> responses.value,
           security |-> OrElse(operationSecurity.value, security),
           servers |-> OrElse(operationServers.value, pathServers)])

\* the round of an operation whose parameters have been parsed
parseOperationOf(p, pathServers, pathParameters, securitySchemes, security, operationObject, operationParameters) ==
  parsedOperation(p, pathServers, pathParameters, security,
                  parseServers(operationObject.servers),
                  operationParameters,
                  mergeParameters(pathParameters, OrElse(operationParameters.value, <<>>)),
                  parseRequestBody(operationObject.requestBody),
                  parseSecurityRequirements(securitySchemes, operationObject.security),
                  parseResponses(operationObject.responses))

\* the body of the loop over httpMethods for a declared operation
parseOperation(p, pathServers, pathParameters, securitySchemes, security, operationObject) ==
  parseOperationOf(p, pathServers, pathParameters, securitySchemes, security, operationObject,
                   parseParameters(operationObject.parameters))

\* the declared operations of a path item in the order of their names
declaredMethodsByName(pathObject) ==
  LET Declared(m) == m \in DOMAIN pathObject.operations
  IN SelectSeq(<<"delete", "get", "head", "options", "patch", "post", "put", "trace">>, Declared)

\* the declared operations of a path item in the order of httpMethods
declaredMethods(pathObject) ==
  LET Declared(m) == m \in DOMAIN pathObject.operations
  IN SelectSeq(httpMethods, Declared)

\* the round of a path item whose template, servers and parameters have been parsed
parsedPathItem(servers, securitySchemes, security, pathObject, p, pathServers, pathParameters) ==
  IF ~p.ok THEN p
  ELSE IF ~pathServers.ok THEN pathServers
  ELSE IF ~pathParameters.ok THEN pathParameters
  ELSE IF ~checkParameters(OrElse(pathParameters.value, <<>>))
  THEN Throw("invalid path parameters", "")
  ELSE Sequenced([i \in 1..Len(declaredMethods(pathObject)) |->
                    parseOperation(p.value,
                                   OrElse(pathServers.value, servers),
                                   OrElse(pathParameters.value, <<>>),
                                   securitySchemes, security,
                                   pathObject.operations[declaredMethods(pathObject)[i]])])

\* the body of the loop over the paths
parsePathItem(servers, securitySchemes, security, rawPath, pathObject) ==
  parsedPathItem(servers, securitySchemes, security, pathObject, parsePath(rawPath),
                 parseServers(pathObject.servers), parseParameters(pathObject.parameters))

\* the servers of a document that declares none: [{ url: "/" }], parsed
defaultServers == <<[urlPrefix |-> parsePath(<<"/">>).value, variables |-> {}]>>

\* the parsed servers of the document, or the default ones for none or an empty list
serversOrDefault(declaredServers) ==
  IF OrElse(declaredServers.value, <<>>) = <<>> THEN defaultServers
  ELSE declaredServers.value.value

\* (openapiDefinition.components || {}).securitySchemes || {}
securitySchemesOf(doc) == OrElse(doc.components.securitySchemes, <<>>)

\* the loop over the paths
parsePaths(doc, servers, security) ==
  Sequenced([i \in 1..Len(keys(doc.paths)) |->
               parsePathItem(servers, securitySchemesOf(doc), security,
                             keys(doc.paths)[i], Get(doc.paths, keys(doc.paths)[i]))])

\* the model of the operations the loops have pushed
parsedModel(operations) ==
  IF ~operations.ok THEN operations ELSE Ok([operations |-> Flatten(operations.value)])

\* run on a document whose servers and security have been parsed
parsedDocument(doc, declaredServers, security) ==
  IF ~declaredServers.ok THEN declaredServers
  ELSE IF ~security.ok THEN security
  ELSE parsedModel(parsePaths(doc, serversOrDefault(declaredServers),
                              OrElse(security.value, <<>>)))

\* run after the version check
runDocument(doc) ==
  parsedDocument(doc, parseServers(doc.servers),
                 parseSecurityRequirements(securitySchemesOf(doc), doc.security))

versionError(doc) == Throw("this modeler is for OpenAPI 3.0.0, found", doc.openapi)

\* the version is compared after the document has been processed
runVersionLast(doc) ==
  IF ~runDocument(doc).ok THEN runDocument(doc)
  ELSE IF doc.openapi # "3.0.0" THEN versionError(doc)
  ELSE runDocument(doc)

run(doc) ==
  IF doc.openapi # "3.0.0" THEN versionError(doc) ELSE runDocument(doc)

\* ------------------------------------------------- the input as run leaves it
\* the number of calls of rs that were started: all, or those up to the first throw
Started(rs) ==
  IF \A i \in 1..Len(rs) : rs[i].ok THEN Len(rs)
  ELSE CHOOSE i \in 1..Len(rs) : ~rs[i].ok /\ \A j \in 1..(i - 1) : rs[j].ok

\* the place of name in names
Position(names, name) == CHOOSE i \in 1..Len(names) : names[i] = name

RECURSIVE parseParameterBaseWritten(_)

\* the header object after parseHeader
parseHeaderWritten(name, header) == parseParameterBaseWritten(asParameterObject(name, header))

\* the number of headers parseHeaders starts on
headersStarted(headers) ==
  Started([i \in 1..Len(keys(headers)) |->
             parseHeader(keys(headers)[i], Get(headers, keys(headers)[i]))])

\* the entries of a headers object of which the first started ones have been parsed
headersWritten(headers, started) ==
  [i \in 1..Len(headers) |->
     IF Position(keys(headers), headers[i].key) <= started
     THEN [key |-> headers[i].key,
           value |-> parseHeaderWritten(headers[i].key, headers[i].value)]
     ELSE headers[i]]

\* the headers object after parseHeaders: the headers up to the first throw are written
parseHeadersWritten(headers) ==
  IF ~headers.present THEN headers
  ELSE Some(headersWritten(headers.value, headersStarted(headers.value)))

\* the encoding property object after its round of the loop
parseEncodingWritten(props, encodingObject, encodedProp) ==
  LET prop == Lookup(props, encodedProp)
      encoding == Get(encodingObject, encodedProp)
      hasContentType == encoding.contentType.present /\ encoding.contentType.value # ""
  IN IF ~prop.present THEN encoding
     ELSE IF ~hasContentType /\ ~getDefaultMediaType(prop.value).ok THEN encoding
     ELSE With(encoding, "headers", parseHeadersWritten(encoding.headers))

\* the number of encoded properties the loop over them starts on
encodingsStarted(props, encodingObject) ==
  Started([i \in 1..Len(keys(encodingObject)) |->
             parseEncoding(props, encodingObject, keys(encodingObject)[i])])

\* the entries of an encoding object of which the first started ones have been parsed
encodingsWritten(props, encodingObject, started) ==
  [i \in 1..Len(encodingObject) |->
     IF Position(keys(encodingObject), encodingObject[i].key) <= started
     THEN [key |-> encodingObject[i].key,
           value |-> parseEncodingWritten(props, encodingObject, encodingObject[i].key)]
     ELSE encodingObject[i]]

\* the media type object after the loop over its encoded properties
encodedWritten(mediaType, contentObj, schema) ==
  IF contentObj.encoding.present /\ schema.type = "object" /\ HasEncodings(mediaType)
  THEN With(contentObj, "encoding",
            Some(encodingsWritten(schema.properties.value, contentObj.encoding.value,
                                  encodingsStarted(schema.properties.value,
                                                   contentObj.encoding.value))))
  ELSE contentObj

\* the media type object after the round of a media type whose schema has been parsed
mediaTypeWritten(mediaType, contentObj, schema) ==
  IF ~schema.ok THEN contentObj
  ELSE IF ~parseEncodings(mediaType, contentObj, schema.value).ok
  THEN encodedWritten(mediaType, contentObj, schema.value)
  ELSE normalizeExamplesWritten(encodedWritten(mediaType, contentObj, schema.value))

\* the media type object after its round of the loop
parseMediaTypeWritten(content, mediaType) ==
  mediaTypeWritten(mediaType, Get(content, mediaType),
                   parseSchema(schemaOrEmpty(Get(content, mediaType))))

\* the number of media types parseContent starts on
contentStarted(content) ==
  Started([i \in 1..Len(keys(content)) |-> parseMediaType(content, keys(content)[i])])

\* the entries of a content object of which the first started ones have been parsed
contentWritten(content, started) ==
  [i \in 1..Len(content) |->
     IF Position(keys(content), content[i].key) <= started
     THEN [key |-> content[i].key, value |-> parseMediaTypeWritten(content, content[i].key)]
     ELSE content[i]]

\* the content object after parseContent
parseContentWritten(content) == contentWritten(content, contentStarted(content))

\* the parameter object after parseParameterBase
parseParameterBaseWritten(p) ==
  IF p.in = "path" /\ ~(p.required.present /\ p.required.value) THEN p
  ELSE IF p.content.present
  THEN With(normalizeExamplesWritten(p), "content", Some(parseContentWritten(p.content.value)))
  ELSE normalizeExamplesWritten(p)

\* the number of parameters parseParameters starts on
parametersStarted(parameters) ==
  Started([i \in 1..Len(parameters) |-> parseParameter(parameters[i])])

\* the parameters of which the first started ones have been parsed
parametersWritten(parameters, started) ==
  [i \in 1..Len(parameters) |->
     IF i <= started THEN parseParameterBaseWritten(parameters[i]) ELSE parameters[i]]

\* the parameter list after parseParameters
parseParametersWritten(parameters) ==
  IF ~parameters.present THEN parameters
  ELSE Some(parametersWritten(parameters.value, parametersStarted(parameters.value)))

\* the number of responses the responses loop starts on
responsesStarted(responses) ==
  Started([i \in 1..Len(keys(responses)) |-> parseResponse(responses, keys(responses)[i])])

\* the entries of a responses object of which the first started ones have been parsed
responsesWritten(responses, started) ==
  [i \in 1..Len(responses) |->
     IF /\ Position(keys(responses), responses[i].key) <= started
        /\ matchesStatusPattern(normalizeResponseKey(responses[i].key))
     THEN [key |-> responses[i].key,
           value |-> With(responses[i].value, "headers",
                          parseHeadersWritten(responses[i].value.headers))]
     ELSE responses[i]]

\* the responses object after the responses loop
parseResponsesWritten(responses) == responsesWritten(responses, responsesStarted(responses))

\* the operation object after its parameters have been parsed
operationAfterParameters(operationObject) ==
  With(operationObject, "parameters", parseParametersWritten(operationObject.parameters))

\* the operation object after its request body has been parsed
operationAfterRequestBody(operationObject) ==
  IF ~operationObject.requestBody.present THEN operationAfterParameters(operationObject)
  ELSE With(operationAfterParameters(operationObject), "requestBody",
            Some(With(operationObject.requestBody.value, "content",
                      parseContentWritten(operationObject.requestBody.value.content))))

\* the operation object after the round of an operation whose parameters have been
\* parsed
operationWritten(p, pathParameters, securitySchemes, operationObject, operationParameters) ==
  IF ~parseServers(operationObject.servers).ok THEN operationObject
  ELSE IF \/ ~operationParameters.ok
          \/ ~checkParameters(pathParameters)
          \/ pathParametersMismatch(
               mergeParameters(pathParameters, OrElse(operationParameters.value, <<>>)), p)
  THEN operationAfterParameters(operationObject)
  ELSE IF \/ ~parseRequestBody(operationObject.requestBody).ok
          \/ ~parseSecurityRequirements(securitySchemes, operationObject.security).ok
  THEN operationAfterRequestBody(operationObject)
  ELSE With(operationAfterRequestBody(operationObject), "responses",
            parseResponsesWritten(operationObject.responses))

\* the operation object after its round of the loop over httpMethods
parseOperationWritten(p, pathParameters, securitySchemes, operationObject) ==
  operationWritten(p, pathParameters, securitySchemes, operationObject,
                   parseParameters(operationObject.parameters))

\* the number of operations the loop over httpMethods starts on
operationsStarted(servers, securitySchemes, security, pathObject, p, pathServers, pathParameters) ==
  Started([i \in 1..Len(declaredMethods(pathObject)) |->
             parseOperation(p, OrElse(pathServers, servers), pathParameters,
                            securitySchemes, security,
                            pathObject.operations[declaredMethods(pathObject)[i]])])

\* the operations of a path item of which the first started ones have been parsed
operationsWritten(securitySchemes, pathObject, p, pathParameters, started) ==
  [m \in DOMAIN pathObject.operations |->
     IF Position(declaredMethods(pathObject), m) <= started
     THEN parseOperationWritten(p, pathParameters, securitySchemes, pathObject.operations[m])
     ELSE pathObject.operations[m]]

\* the path item object after its parameters have been parsed
pathItemAfterParameters(pathObject) ==
  With(pathObject, "parameters", parseParametersWritten(pathObject.parameters))

\* the path item object after the round of a path item whose template, servers and
\* parameters have been parsed
pathItemWritten(servers, securitySchemes, security, pathObject, p, pathServers, pathParameters) ==
  IF ~p.ok \/ ~pathServers.ok THEN pathObject
  ELSE IF \/ ~pathParameters.ok
          \/ ~checkParameters(OrElse(pathParameters.value, <<>>))
  THEN pathItemAfterParameters(pathObject)
  ELSE With(pathItemAfterParameters(pathObject), "operations",
            operationsWritten(securitySchemes, pathObject, p.value,
                              OrElse(pathParameters.value, <<>>),
                              operationsStarted(servers, securitySchemes, security, pathObject,
                                                p.value, pathServers.value,
                                                OrElse(pathParameters.value, <<>>))))

\* the path item object after its round of the loop over the paths
parsePathItemWritten(servers, securitySchemes, security, rawPath, pathObject) ==
  pathItemWritten(servers, securitySchemes, security, pathObject, parsePath(rawPath),
                  parseServers(pathObject.servers), parseParameters(pathObject.parameters))

\* the number of paths the loop over the paths starts on
pathsStarted(doc, servers, security) ==
  Started([i \in 1..Len(keys(doc.paths)) |->
             parsePathItem(servers, securitySchemesOf(doc), security,
                           keys(doc.paths)[i], Get(doc.paths, keys(doc.paths)[i]))])

\* the paths of which the first started ones have been parsed
pathsWritten(doc, servers, security, started) ==
  [i \in 1..Len(doc.paths) |->
     IF Position(keys(doc.paths), doc.paths[i].key) <= started
     THEN [key |-> doc.paths[i].key,
           value |-> parsePathItemWritten(servers, securitySchemesOf(doc), security,
                                          doc.paths[i].key, doc.paths[i].value)]
     ELSE doc.paths[i]]

\* the document after run on a document whose servers and security have been parsed
documentWritten(doc, declaredServers, security) ==
  IF doc.openapi # "3.0.0" \/ ~declaredServers.ok \/ ~security.ok THEN doc
  ELSE With(doc, "paths",
            pathsWritten(doc, serversOrDefault(declaredServers), OrElse(security.value, <<>>),
                         pathsStarted(doc, serversOrDefault(declaredServers),
                                      OrElse(security.value, <<>>))))

\* the document after run
runWritten(doc) ==
  documentWritten(doc, parseServers(doc.servers),
                  parseSecurityRequirements(securitySchemesOf(doc), doc.security))

\* ------------------------------------------------------------- the documents
Versions == {"3.0.0", "3.0.1"}

ParameterNames == {<<"i", "d">>, <<"x">>}

\* a parameter object that declares a name, a location and maybe required
ParameterObject(name, location, required) ==
  [name |-> name, in |-> location, required |-> required, description |-> Absent,
   style |-> Absent, explode |-> Absent, schema |-> Absent,
   example |-> Absent, examples |-> Absent, content |-> Absent]

\* the parameter objects a document declares, before their description is set
ParameterObjects ==
  {ParameterObject(n, "path", r) : n \in ParameterNames, r \in {Absent, Some(FALSE), Some(TRUE)}}
    \cup {ParameterObject(n, "query", Absent) : n \in ParameterNames}

\* a declared parameter list; every parameter is described by where it is declared
Declared(level, ps) ==
  IF ps = <<>> THEN Absent
  ELSE Some([i \in 1..Len(ps) |->
               With(ps[i], "description", <<level, i>>)])

\* /p/{id}, /{id}/{id}, /p, /{id}/{x}
PathTemplates ==
  { <<"/", "p", "/", "{", "i", "d", "}">>,
    <<"/", "{", "i", "d", "}", "/", "{", "i", "d", "}">>,
    <<"/", "p">>,
    <<"/", "{", "i", "d", "}", "/", "{", "x", "}">> }

\* 200, 404, 2XX, 20X, XXX, default, 20, 2xx, 2000
ResponseKeys ==
  { <<"2", "0", "0">>, <<"4", "0", "4">>, <<"2", "X", "X">>, <<"2", "0", "X">>,
    <<"X", "X", "X">>, <<"d", "e", "f", "a", "u", "l", "t">>,
    <<"2", "0">>, <<"2", "x", "x">>, <<"2", "0", "0", "0">> }

\* a response object without headers
ResponseObject(description) == [description |-> description, headers |-> Absent]

\* a responses object: distinct keys in declaration order, each response described
\* by the place of its declaration
ResponsesObjects ==
  UNION {{[i \in 1..n |-> [key |-> ks[i], value |-> ResponseObject(i)]] :
            ks \in {f \in [1..n -> ResponseKeys] : \A i, j \in 1..n : i # j => f[i] # f[j]}} :
         n \in 0..MaxResponses}

OkResponses == <<[key |-> <<"2", "0", "0">>, value |-> ResponseObject(1)]>>

\* /v1, /{v}/api and the malformed /{
ServerUrls == {<<"/", "v", "1">>, <<"/", "{", "v", "}", "/", "a", "p", "i">>, <<"/", "{">>}

ServerLists == {Absent, Some(<<>>)} \cup {Some(<<[url |-> u, variables |-> Absent]>>) : u \in ServerUrls}

OperationObject(servers, parameters, responses) ==
  [servers |-> servers, parameters |-> parameters, responses |-> responses,
   security |-> Absent, requestBody |-> Absent]

PathItemObject(servers, parameters, operations) ==
  [servers |-> servers, parameters |-> parameters, operations |-> operations]

Document(version, servers, paths) ==
  [openapi |-> version, servers |-> servers, paths |-> paths,
   components |-> [securitySchemes |-> Absent], security |-> Absent]

IdParameter == ParameterObject(<<"i", "d">>, "path", Some(TRUE))

\* one path with a get operation; the parameters vary
ParameterDocument(doc) ==
  \E v \in Versions, t \in PathTemplates, n \in 0..MaxParams :
    \E k \in 0..n :
      \E ps \in [1..k -> ParameterObjects], os \in [1..(n - k) -> ParameterObjects] :
        doc = Document(v, Absent,
                <<[key |-> t,
                   value |-> PathItemObject(Absent, Declared("path", ps),
                               [m \in {"get"} |->
                                  OperationObject(Absent, Declared("operation", os), OkResponses)])]>>)

\* one path /p/{id} with a get operation; the responses vary
ResponseDocument(doc) ==
  \E v \in Versions, rs \in ResponsesObjects :
    doc = Document(v, Absent,
            <<[key |-> <<"/", "p", "/", "{", "i", "d", "}">>,
               value |-> PathItemObject(Absent, Declared("path", <<IdParameter>>),
                           [m \in {"get"} |-> OperationObject(Absent, Absent, rs)])]>>)

\* the servers of the three levels, the declared methods and the paths vary
StructureDocument(doc) ==
  \E v \in Versions, ds \in ServerLists, ps \in ServerLists, os \in ServerLists,
     ms \in {{}, {"get"}, {"post", "get"}},
     ts \in {<<<<"/", "p">>>>, <<<<"/", "p">>, <<"/", "q">>>>, <<>>} :
    doc = Document(v, ds,
            [i \in 1..Len(ts) |->
               [key |-> ts[i],
                value |-> PathItemObject(ps, IF i = 1 THEN Absent ELSE Some(<<>>),
                            [m \in ms |->
                               OperationObject(os, IF m = "get" THEN Absent ELSE Some(<<>>), OkResponses)])]])

\* the security scheme registries: none, {k}, {k, o}
SchemeRegistries ==
  { Absent,
    Some(<<[key |-> <<"k">>, value |-> [type |-> "apiKey"]]>>),
    Some(<<[key |-> <<"k">>, value |-> [type |-> "apiKey"]],
           [key |-> <<"o">>, value |-> [type |-> "oauth2"]]>>) }

\* the security requirement objects: {}, {k: []}, {o: [r]}, {o: [r, w], k: []},
\* {u: []} and {constructor: []}
RequirementObjects ==
  { <<>>,
    <<[key |-> <<"k">>, value |-> <<>>]>>,
    <<[key |-> <<"o">>, value |-> <<"r">>]>>,
    <<[key |-> <<"o">>, value |-> <<"r", "w">>], [key |-> <<"k">>, value |-> <<>>]>>,
    <<[key |-> <<"u">>, value |-> <<>>]>>,
    <<[key |-> <<"c", "o", "n", "s", "t", "r", "u", "c", "t", "o", "r">>, value |-> <<>>]>> }

\* a declared list that is empty is either left out or written as []
DeclaredList(xs, leftOut) == IF xs = <<>> /\ leftOut THEN Absent ELSE Some(xs)

\* one path /p with a get operation; the registry and the security of the document
\* and of the operation vary
SecurityDocument(doc) ==
  \E v \in Versions, registry \in SchemeRegistries, n \in 0..MaxRequirements :
    \E k \in 0..n, docLeftOut \in BOOLEAN, opLeftOut \in BOOLEAN :
      \E ds \in [1..k -> RequirementObjects], os \in [1..(n - k) -> RequirementObjects] :
        doc = With(With(Document(v, Absent,
                     <<[key |-> <<"/", "p">>,
                        value |-> PathItemObject(Absent, Absent,
                                    [m \in {"get"} |->
                                       With(OperationObject(Absent, Absent, OkResponses),
                                            "security", DeclaredList(os, opLeftOut))])]>>),
                     "security", DeclaredList(ds, docLeftOut)),
                "components", [securitySchemes |-> registry])

\* the parameters x of every location, with and without a style and an explode
FormatParameters ==
  {With(With(ParameterObject(<<"x">>, location, Some(TRUE)), "style", style),
        "explode", explode) :
     location \in {"query", "header", "path", "cookie"},
     style \in {Absent, Some("form"), Some("simple"), Some("matrix"), Some("deepObject")},
     explode \in {Absent, Some(FALSE), Some(TRUE)}}

\* one path, /{x} or /p, with a get operation that declares one parameter x
FormatDocument(doc) ==
  \E v \in Versions, t \in {<<"/", "{", "x", "}">>, <<"/", "p">>}, o \in FormatParameters :
    doc = Document(v, Absent,
            <<[key |-> t,
               value |-> PathItemObject(Absent, Absent,
                           [m \in {"get"} |->
                              OperationObject(Absent, Declared("operation", <<o>>),
                                              OkResponses)])]>>)

\* the type tags of the seven kinds of schema
TypeTags == {"string", "integer", "number", "object", "array", "boolean", "null"}

\* what a schema declares as its type: nothing, a tag, the empty string or float
DeclaredTypes == {Absent, Some(""), Some("float")} \cup {Some(t) : t \in TypeTags}

\* the keywords that hold nested schemas
Keywords ==
  {"allOf", "oneOf", "anyOf", "not", "items", "properties", "additionalProperties"}

\* the value of keyword k that nests the schema s
Nested(k, s) ==
  CASE k \in {"allOf", "oneOf", "anyOf"} -> Some(<<s>>)
    [] k = "properties" -> Some(<<[key |-> <<"a">>, value |-> s]>>)
    [] OTHER -> Some(s)

\* the schemas nested at most d deep; a schema that nests another declares no type,
\* array or string
RECURSIVE SchemaObjects(_)
SchemaObjects(d) ==
  IF d = 0 THEN {SchemaObject(t) : t \in DeclaredTypes}
  ELSE SchemaObjects(d - 1)
         \cup {With(SchemaObject(t), k, Nested(k, s)) :
                 t \in {Absent, Some("array"), Some("string")}, k \in Keywords,
                 s \in SchemaObjects(d - 1)}
         \cup {With(SchemaObject(Absent), "additionalProperties", Some([boolean |-> b])) :
                 b \in BOOLEAN}

\* one path /p with a get operation that declares the query parameter x with a schema
SchemaDocument(doc) ==
  \E v \in Versions, s \in SchemaObjects(MaxDepth) :
    doc = Document(v, Absent,
            <<[key |-> <<"/", "p">>,
               value |-> PathItemObject(Absent, Absent,
                           [m \in {"get"} |->
                              OperationObject(Absent,
                                Declared("operation",
                                  <<With(ParameterObject(<<"x">>, "query", Absent),
                                         "schema", Some(s))>>),
                                OkResponses)])]>>)

\* a header object that declares nothing
HeaderObject ==
  [required |-> Absent, description |-> Absent, style |-> Absent, explode |-> Absent,
   schema |-> Absent, example |-> Absent, examples |-> Absent, content |-> Absent]

\* an encoding property object that declares at most a content type and headers
EncodingPropertyObject(contentType, headers) ==
  [contentType |-> contentType, headers |-> headers, style |-> Absent, explode |-> Absent,
   allowReserved |-> Absent]

\* a media type object that declares at most a schema and encodings
MediaTypeObject(schema, encoding) ==
  [schema |-> schema, example |-> Absent, examples |-> Absent, encoding |-> encoding]

RequestBodyObject(content) == [description |-> Absent, content |-> content, required |-> Absent]

\* multipart/x, application/x-www-form-urlencoded, x-www-form-urlencoded, text/x
MediaTypes ==
  { <<"m", "u", "l", "t", "i", "p", "a", "r", "t", "/", "x">>,
    <<"a", "p", "p", "l", "i", "c", "a", "t", "i", "o", "n", "/",
      "x", "-", "w", "w", "w", "-", "f", "o", "r", "m", "-",
      "u", "r", "l", "e", "n", "c", "o", "d", "e", "d">>,
    <<"x", "-", "w", "w", "w", "-", "f", "o", "r", "m", "-",
      "u", "r", "l", "e", "n", "c", "o", "d", "e", "d">>,
    <<"t", "e", "x", "t", "/", "x">> }

\* an object with the properties a, a string, and b, an array of strings
FormSchema ==
  With(SchemaObject(Some("object")), "properties",
       Some(<<[key |-> <<"a">>, value |-> SchemaObject(Some("string"))],
              [key |-> <<"b">>,
               value |-> With(SchemaObject(Some("array")), "items",
                              Some(SchemaObject(Some("string"))))]>>))

\* the schemas of a media type: none, the form, the form without its type, a string
MediaSchemas ==
  {Absent, Some(FormSchema), Some(With(FormSchema, "type", Absent)),
   Some(SchemaObject(Some("string")))}

\* the encodings a property declares: nothing, a content type, a header
EncodingPropertyObjects ==
  { EncodingPropertyObject(Absent, Absent),
    EncodingPropertyObject(Some("image/png"), Absent),
    EncodingPropertyObject(Absent, Some(<<[key |-> <<"h">>, value |-> HeaderObject]>>)) }

\* the encodings of a media type: none, {}, of a, of b and a, of c, of constructor
EncodingObjects ==
  {Absent, Some(<<>>)}
    \cup {Some(<<[key |-> <<"a">>, value |-> e]>>) : e \in EncodingPropertyObjects}
    \cup {Some(<<[key |-> <<"b">>, value |-> e], [key |-> <<"a">>, value |-> f]>>) :
            e \in EncodingPropertyObjects, f \in EncodingPropertyObjects}
    \cup {Some(<<[key |-> <<"c">>, value |-> EncodingPropertyObject(Absent, Absent)]>>)}
    \cup {Some(<<[key |-> <<"c", "o", "n", "s", "t", "r", "u", "c", "t", "o", "r">>,
                  value |-> EncodingPropertyObject(t, Absent)]>>) :
            t \in {Absent, Some("image/png")}}

\* one path /p with a post operation whose request body has one media type
ContentDocument(doc) ==
  \E v \in Versions, mediaType \in MediaTypes, schema \in MediaSchemas,
     encoding \in EncodingObjects :
    doc = Document(v, Absent,
            <<[key |-> <<"/", "p">>,
               value |-> PathItemObject(Absent, Absent,
                           [m \in {"post"} |->
                              With(OperationObject(Absent, Absent, OkResponses), "requestBody",
                                   Some(RequestBodyObject(
                                     <<[key |-> mediaType,
                                        value |-> MediaTypeObject(schema, encoding)]>>)))])]>>)

\* the examples of an object: none, or the map with the example json
ExamplesMaps ==
  {Absent, Some(<<>>), Some(<<[key |-> <<"j", "s", "o", "n">>, value |-> [value |-> "v"]]>>)}

\* the headers of a response: none, the header h, or h with an example and examples
HeadersObjects ==
  {Absent}
    \cup {Some(<<[key |-> <<"h">>,
                  value |-> With(With(HeaderObject, "example", e), "examples", es)]>>) :
            e \in {Absent, Some("e")}, es \in ExamplesMaps}

\* one path /p with a get operation: the query parameter x and the response 200
\* declare examples, the response headers
ExampleDocument(doc) ==
  \E v \in Versions, e \in {Absent, Some(""), Some("e")}, es \in ExamplesMaps,
     hs \in HeadersObjects :
    doc = Document(v, Absent,
            <<[key |-> <<"/", "p">>,
               value |-> PathItemObject(Absent, Absent,
                           [m \in {"get"} |->
                              OperationObject(Absent,
                                Declared("operation",
                                  <<With(With(ParameterObject(<<"x">>, "query", Absent),
                                              "example", e), "examples", es)>>),
                                <<[key |-> <<"2", "0", "0">>,
                                   value |-> With(ResponseObject(1), "headers", hs)]>>)])]>>)

\* a string of format binary
BinarySchema == With(SchemaObject(Some("string")), "format", Some("binary"))

\* an array of the items s
ArraySchema(s) == With(SchemaObject(Some("array")), "items", Some(s))

\* the schemas of an encoded property: every type but array with and without the
\* declaration of a type, a binary string, and arrays of these and of arrays
PropertySchemas ==
  {SchemaObject(t) : t \in {Absent} \cup {Some(t) : t \in TypeTags \ {"array"}}}
    \cup {BinarySchema}
    \cup {ArraySchema(s) : s \in {SchemaObject(Some("string")), BinarySchema,
                                  SchemaObject(Some("object")), ArraySchema(BinarySchema),
                                  ArraySchema(SchemaObject(Some("integer")))}}

\* one path /p with a post operation whose request body is multipart/x with an
\* object of one property a, encoded with or without a content type
EncodingDocument(doc) ==
  \E v \in Versions, s \in PropertySchemas, t \in {Absent, Some(""), Some("image/png")} :
    doc = Document(v, Absent,
            <<[key |-> <<"/", "p">>,
               value |-> PathItemObject(Absent, Absent,
                           [m \in {"post"} |->
                              With(OperationObject(Absent, Absent, OkResponses), "requestBody",
                                   Some(RequestBodyObject(
                                     <<[key |-> <<"m", "u", "l", "t", "i", "p", "a", "r", "t", "/", "x">>,
                                        value |-> MediaTypeObject(
                                          Some(With(SchemaObject(Some("object")), "properties",
                                                    Some(<<[key |-> <<"a">>, value |-> s]>>))),
                                          Some(<<[key |-> <<"a">>,
                                                  value |-> EncodingPropertyObject(t, Absent)]>>))]>>)))])]>>)

\* the content of a parameter: none, {}, of text/x, of the empty media type, of both
ParameterContents ==
  { Absent, Some(<<>>),
    Some(<<[key |-> <<"t", "e", "x", "t", "/", "x">>,
            value |-> MediaTypeObject(Some(SchemaObject(Some("string"))), Absent)]>>),
    Some(<<[key |-> <<>>,
            value |-> MediaTypeObject(Some(SchemaObject(Some("string"))), Absent)]>>),
    Some(<<[key |-> <<"t", "e", "x", "t", "/", "x">>,
            value |-> MediaTypeObject(Some(SchemaObject(Some("string"))), Absent)],
           [key |-> <<>>,
            value |-> MediaTypeObject(Some(SchemaObject(Some("boolean"))), Absent)]>>) }

\* one path /p with a get operation that declares the query parameter x with a
\* content, a schema, an example and examples
ParameterContentDocument(doc) ==
  \E v \in Versions, c \in ParameterContents, s \in {Absent, Some(SchemaObject(Some("integer")))},
     e \in {Absent, Some(""), Some("e")}, es \in ExamplesMaps :
    doc = Document(v, Absent,
            <<[key |-> <<"/", "p">>,
               value |-> PathItemObject(Absent, Absent,
                           [m \in {"get"} |->
                              OperationObject(Absent,
                                Declared("operation",
                                  <<With(With(With(With(ParameterObject(<<"x">>, "query", Absent),
                                                        "content", c), "schema", s),
                                              "example", e), "examples", es)>>),
                                OkResponses)])]>>)

\* the operation of a method: its one response is described by the place of the
\* method in httpMethods
MethodOperation(m) ==
  OperationObject(Absent, Absent,
    <<[key |-> <<"2", "0", "0">>, value |-> ResponseObject(Position(httpMethods, m))]>>)

\* the paths /p and /q in either order; the methods of the first and of the second vary
MethodsDocument(doc) ==
  \E v \in Versions, ts \in {<<<<"/", "p">>>>, <<<<"/", "p">>, <<"/", "q">>>>, <<<<"/", "q">>, <<"/", "p">>>>},
     first \in SUBSET {"trace", "put", "get"}, others \in {{}, {"post", "delete"}} :
    doc = Document(v, Absent,
            [i \in 1..Len(ts) |->
               [key |-> ts[i],
                value |-> PathItemObject(Absent, Absent,
                            [m \in (IF i = 1 THEN first ELSE others) |-> MethodOperation(m)])]])

Init ==
  /\ pc = "start"
  /\ \/ ParameterDocument(openapiDefinition)
     \/ ResponseDocument(openapiDefinition)
     \/ StructureDocument(openapiDefinition)
     \/ SecurityDocument(openapiDefinition)
     \/ FormatDocument(openapiDefinition)
     \/ SchemaDocument(openapiDefinition)
     \/ ContentDocument(openapiDefinition)
     \/ ExampleDocument(openapiDefinition)
     \/ EncodingDocument(openapiDefinition)
     \/ ParameterContentDocument(openapiDefinition)
     \/ MethodsDocument(openapiDefinition)
  /\ result = <<>>
  /\ path = <<>>
  /\ parsed = <<>>
  /\ parameter = <<>>
  /\ unique = FALSE
  /\ document = <<>>
  /\ heap = <<>>
  /\ hits = <<>>
  /\ cursor = 0

Run ==
  /\ pc = "start"
  /\ pc' = "done"
  /\ result' = run(openapiDefinition)
  /\ openapiDefinition' = runWritten(openapiDefinition)
  /\ UNCHANGED <<path, parsed, parameter, unique, document, heap, hits, cursor>>

Next == Run

Spec == Init /\ [][Next]_vars

\* ------------------------------------------------------------------ resolve
\* the values of the graph: a node of the heap, a string, an array of strings, a member
\* inherited from a prototype, and undefined
Node(id) == [kind |-> "node", value |-> id]

Str(chars) == [kind |-> "string", value |-> chars]

Array(strings) == [kind |-> "array", value |-> strings]

Inherited(name) == [kind |-> "inherited", member |-> name]

Undefined == [kind |-> "undefined", value |-> <<>>]

\* the node the parameter $ of resolve is bound to
Root == 1

RefKey == <<"$", "r", "e", "f">>

PathKey == <<"$", "p", "a", "t", "h">>

\* value[key] for a value that is not undefined: an own property, an element or a
\* character at an cursor, an inherited member, or undefined
Member(h, value, key) ==
  IF value.kind = "node" /\ \E i \in 1..Len(h[value.value]) : h[value.value][i].key = key
  THEN Get(h[value.value], key)
  ELSE IF /\ value.kind \in {"string", "array"}
          /\ IsArrayIndex(key)
          /\ NumericValue(key) < Len(value.value)
  THEN Str(IF value.kind = "string" THEN <<value.value[NumericValue(key) + 1]>>
           ELSE value.value[NumericValue(key) + 1])
  ELSE IF key \in ObjectPrototypeNames THEN Inherited(key)
  ELSE Undefined

\* value[k1][k2]...: reading a member of undefined is a TypeError
RECURSIVE Walk(_, _, _)
Walk(h, value, names) ==
  IF names = <<>> THEN Ok(value)
  ELSE IF value.kind = "undefined" THEN Throw("TypeError", "")
  ELSE Walk(h, Member(h, value, Head(names)), Tail(names))

\* the value of a string literal JSON.stringify wrote
RECURSIVE Unescape(_)
Unescape(s) ==
  IF s = <<>> THEN <<>>
  ELSE IF Head(s) = "\\" /\ Len(s) >= 2 THEN <<s[2]>> \o Unescape(SubSeq(s, 3, Len(s)))
  ELSE <<Head(s)>> \o Unescape(Tail(s))

Unquote(literal) == Unescape(SubSeq(literal, 2, Len(literal) - 1))

\* only the first match is replaced
RECURSIVE ReplaceFirst(_, _, _)
ReplaceFirst(s, pattern, by) ==
  IF Len(s) < 2 THEN s
  ELSE IF SubSeq(s, 1, 2) = pattern THEN <<by>> \o SubSeq(s, 3, Len(s))
  ELSE <<Head(s)>> \o ReplaceFirst(Tail(s), pattern, by)

\* part.replace(/<a><b>/g, by) for a pattern of two characters
RECURSIVE Replace(_, _, _)
Replace(s, pattern, by) ==
  IF Len(s) < 2 THEN s
  ELSE IF SubSeq(s, 1, 2) = pattern THEN <<by>> \o Replace(SubSeq(s, 3, Len(s)), pattern, by)
  ELSE <<Head(s)>> \o Replace(Tail(s), pattern, by)

\* the replacements are made the other way round
sourceRefPartDecodedTildeFirst(part) == Replace(Replace(part, <<"~", "0">>, "~"), <<"~", "1">>, "/")

\* part.replace(/~1/g, "/").replace(/~0/g, "~")
sourceRefPartDecoded(part) == Replace(Replace(part, <<"~", "1">>, "/"), <<"~", "0">>, "~")

Letters ==
  { "a", "b", "c", "d", "e", "f", "g", "h", "i", "j", "k", "l", "m", "n", "o", "p",
    "q", "r", "s", "t", "u", "v", "w", "x", "y", "z", "A", "B", "C", "D", "E", "F",
    "G", "H", "I", "J", "K", "L", "M", "N", "O", "P", "Q", "R", "S", "T", "U", "V",
    "W", "X", "Y", "Z" }

\* the name matches the identifier pattern of jsonpath: [a-zA-Z_]+[a-zA-Z0-9_]*
IsIdentifier(name) ==
  /\ name # <<>>
  /\ Head(name) \in Letters \cup {"_"}
  /\ \A i \in 1..Len(name) : name[i] \in Letters \cup Digits \cup {"_"}

\* the property a component of stringify(hit.path) names when it is evaluated:
\* .name for an identifier, else [JSON.stringify(name)]
targetName(name) == IF IsIdentifier(name) THEN name ELSE Unquote(JsonString(name))

\* the children of the node at path p that are nodes, in the order of its keys
childNodes(h, id, p) ==
  LET IsNode(name) == Get(h[id], name).kind = "node"
      names == SelectSeq(keys(h[id]), IsNode)
  IN [i \in 1..Len(names) |-> [path |-> Append(p, names[i]),
                               value |-> Get(h[id], names[i]).value]]

\* $..* of jsonpath for the nodes of a tree: the children of a node, then the
\* descendants of each child
RECURSIVE descend(_, _, _)
descend(h, id, p) ==
  LET children == childNodes(h, id, p)
  IN children \o Flatten([i \in 1..Len(children) |->
                            descend(h, children[i].value, children[i].path)])

\* @.$ref is truthy for the node
HasRef(h, id) ==
  /\ \E i \in 1..Len(h[id]) : h[id][i].key = RefKey
  /\ ~(Get(h[id], RefKey).kind = "string" /\ Get(h[id], RefKey).value = <<>>)

\* nodes($, "$..*[?(@.$ref)]"): the filter is applied to the children of every
\* descendant of the root
nodes(h) ==
  LET descendants == descend(h, Root, <<>>)
      Filtered(partial) ==
        LET HitNode(child) == HasRef(h, child.value)
        IN SelectSeq(childNodes(h, partial.value, partial.path), HitNode)
  IN Flatten([i \in 1..Len(descendants) |-> Filtered(descendants[i])])

\* the heap with the property name of node id set
Assign(h, id, name, value) == [h EXCEPT ![id] = Put(h[id], name, value)]

\* reference.name = value in strict code: a TypeError for undefined and for a
\* string; a write to an array or to an inherited member is not a write to the heap
assign(h, reference, name, value) ==
  IF reference.kind \in {"undefined", "string"} THEN [outcome |-> Throw("TypeError", ""), heap |-> h]
  ELSE IF reference.kind = "node"
  THEN [outcome |-> Ok(<<>>), heap |-> Assign(h, reference.value, name, value)]
  ELSE [outcome |-> Ok(<<>>), heap |-> h]

\* sourceRefParts.map(...) after the shift: the parts after the first, decoded
decodeParts(sourceRefParts) ==
  [i \in 1..(Len(sourceRefParts) - 1) |-> sourceRefPartDecoded(sourceRefParts[i + 1])]

\* the property names of sourcePath as they are evaluated
sourcePathNames(sourceRefPartsDecoded) ==
  [i \in 1..Len(sourceRefPartsDecoded) |-> Unquote(JsonString(sourceRefPartsDecoded[i]))]

\* one round of the loop of resolve: its outcome and the heap it leaves
resolveHit(h, hit) ==
  LET sourceRef == Get(h[hit.value], RefKey).value
      sourceRefParts == Split(sourceRef, "/")
      sourceRefPartsDecoded == decodeParts(sourceRefParts)
      sourcePath == sourcePathNames(sourceRefPartsDecoded)
      targetPath == [i \in 1..Len(hit.path) |-> targetName(hit.path[i])]
      source == Walk(h, Node(Root), sourcePath)
      tagged == assign(h, source.value, PathKey, Array(sourceRefPartsDecoded))
      target == Walk(tagged.heap, Node(Root), SubSeq(targetPath, 1, Len(targetPath) - 1))
      sourceAgain == Walk(tagged.heap, Node(Root), sourcePath)
  IN IF ~StartsWith(Head(sourceRefParts), <<"#">>)
     THEN [outcome |-> Throw("invalid syntax of local reference", ""), heap |-> h]
     ELSE IF ~source.ok THEN [outcome |-> source, heap |-> h]
     ELSE IF ~tagged.outcome.ok THEN tagged
     ELSE IF ~target.ok THEN [outcome |-> target, heap |-> tagged.heap]
     ELSE IF ~sourceAgain.ok THEN [outcome |-> sourceAgain, heap |-> tagged.heap]
     ELSE assign(tagged.heap, target.value, targetPath[Len(targetPath)], sourceAgain.value)

\* the strings of the $ref fields: #/c, #/c/s, #/c/s/k, #/c/m~1n, #/c/m~01n, #/p/x, #,
\* #/c/zz, #/zz/s, x#/c, #/constructor and the empty string
RefStrings ==
  { <<"#", "/", "c">>,
    <<"#", "/", "c", "/", "s">>,
    <<"#", "/", "c", "/", "s", "/", "k">>,
    <<"#", "/", "c", "/", "m", "~", "1", "n">>,
    <<"#", "/", "c", "/", "m", "~", "0", "1", "n">>,
    <<"#", "/", "p", "/", "x">>,
    <<"#">>,
    <<"#", "/", "c", "/", "z", "z">>,
    <<"#", "/", "z", "z", "/", "s">>,
    <<"x", "#", "/", "c">>,
    <<"#", "/", "c", "o", "n", "s", "t", "r", "u", "c", "t", "o", "r">>,
    <<>> }

\* what stands at one of the four places d, p.x, p.y and c.s of a document: nothing,
\* the node {k: {}} or a node {$ref: r}
Places ==
  {[kind |-> "none", ref |-> <<>>], [kind |-> "plain", ref |-> <<>>]}
    \cup {[kind |-> "ref", ref |-> r] : r \in RefStrings}

\* the entry of a place in its parent
PlaceEntry(name, id, place) ==
  IF place.kind = "none" THEN <<>> ELSE <<[key |-> name, value |-> Node(id)]>>

\* the node of a place
PlaceNode(id, place) ==
  CASE place.kind = "none" -> <<>>
    [] place.kind = "plain" -> <<[key |-> <<"k">>, value |-> Node(id + 6)]>>
    [] place.kind = "ref" -> <<[key |-> RefKey, value |-> Str(place.ref)]>>

\* the document {p: {x, y}, c: {s, "m/n": {}, "m~1n": {}}, d} as a heap of 15 nodes
Graph(d, x, y, s) ==
  [id \in 1..15 |->
     CASE id = 1 -> <<[key |-> <<"p">>, value |-> Node(2)], [key |-> <<"c">>, value |-> Node(3)]>>
                      \o PlaceEntry(<<"d">>, 4, d)
       [] id = 2 -> PlaceEntry(<<"x">>, 5, x) \o PlaceEntry(<<"y">>, 6, y)
       [] id = 3 -> PlaceEntry(<<"s">>, 7, s)
                      \o <<[key |-> <<"m", "/", "n">>, value |-> Node(8)],
                           [key |-> <<"m", "~", "1", "n">>, value |-> Node(9)]>>
       [] id = 4 -> PlaceNode(4, d)
       [] id = 5 -> PlaceNode(5, x)
       [] id = 6 -> PlaceNode(6, y)
       [] id = 7 -> PlaceNode(7, s)
       [] OTHER -> <<>>]

\* the documents have at most MaxRefs nodes that carry a $ref
InitResolve ==
  /\ pc = "start"
  /\ \E d \in Places, x \in Places, y \in Places, s \in Places :
       /\ Cardinality({i \in 1..4 : <<d, x, y, s>>[i].kind = "ref"}) <= MaxRefs
       /\ heap = Graph(d, x, y, s)
  /\ document = heap
  /\ hits = <<>>
  /\ cursor = 0
  /\ result = <<>>
  /\ path = <<>>
  /\ parsed = <<>>
  /\ parameter = <<>>
  /\ unique = FALSE
  /\ openapiDefinition = <<>>

\* the hits are collected before the loop
CallNodes ==
  /\ pc = "start"
  /\ pc' = "loop"
  /\ hits' = nodes(heap)
  /\ cursor' = 1
  /\ UNCHANGED <<path, parsed, parameter, unique, openapiDefinition, result, document, heap>>

\* a round that does not advance to the next hit
ResolveHitAgain ==
  /\ pc = "loop"
  /\ cursor <= Len(hits)
  /\ LET round == resolveHit(heap, hits[cursor])
     IN /\ heap' = round.heap
        /\ IF round.outcome.ok
           THEN pc' = "loop" /\ cursor' = cursor /\ result' = result
           ELSE pc' = "thrown" /\ cursor' = cursor /\ result' = round.outcome
  /\ UNCHANGED <<path, parsed, parameter, unique, openapiDefinition, document, hits>>

\* one round of the loop
ResolveHit ==
  /\ pc = "loop"
  /\ cursor <= Len(hits)
  /\ LET round == resolveHit(heap, hits[cursor])
     IN /\ heap' = round.heap
        /\ IF round.outcome.ok
           THEN pc' = "loop" /\ cursor' = cursor + 1 /\ result' = result
           ELSE pc' = "thrown" /\ cursor' = cursor /\ result' = round.outcome
  /\ UNCHANGED <<path, parsed, parameter, unique, openapiDefinition, document, hits>>

Return ==
  /\ pc = "loop"
  /\ cursor > Len(hits)
  /\ pc' = "done"
  /\ result' = Ok(<<>>)
  /\ UNCHANGED <<path, parsed, parameter, unique, openapiDefinition, document, heap, hits, cursor>>

NextResolve == CallNodes \/ ResolveHit \/ Return

SpecResolve == InitResolve /\ [][NextResolve]_vars

\* the control of resolve moves on: from the call of nodes into the loop, and in the
\* loop to the next hit, to the return or to the throw
Advance ==
  \/ pc = "start" /\ pc' = "loop" /\ cursor' = 1
  \/ pc = "loop" /\ pc' \in {"loop", "done", "thrown"} /\ cursor' \in {cursor, cursor + 1}

\* resolve is synchronous code of one thread: while it has not returned or thrown,
\* its control moves on
SpecResolveFair == SpecResolve /\ WF_<<pc, cursor>>(Advance)

\* ------------------------------------------------- the segments of a $ref
PointerChars == {"~", "/", "0", "1", "a", "\""}

\* the strings over PointerChars of length n
RECURSIVE PointersOfLength(_)
PointersOfLength(n) ==
  IF n = 0 THEN {<<>>}
  ELSE {Append(t, c) : t \in PointersOfLength(n - 1), c \in PointerChars}

\* the $ref strings #/<pointer>: document holds the sourceRef of the hit
InitDecode ==
  /\ pc = "start"
  /\ \E n \in 0..MaxPointerLen : \E t \in PointersOfLength(n) : document = <<"#", "/">> \o t
  /\ heap = <<>>
  /\ hits = <<>>
  /\ cursor = 0
  /\ result = <<>>
  /\ path = <<>>
  /\ parsed = <<>>
  /\ parameter = <<>>
  /\ unique = FALSE
  /\ openapiDefinition = <<>>

\* what a round of the loop makes of the sourceRef before it evaluates the paths
decodeSourceRef(sourceRef) ==
  IF ~StartsWith(Head(Split(sourceRef, "/")), <<"#">>)
  THEN Throw("invalid syntax of local reference", "")
  ELSE Ok([sourceRefPartsDecoded |-> decodeParts(Split(sourceRef, "/")),
           sourcePath |-> sourcePathNames(decodeParts(Split(sourceRef, "/")))])

DecodeSourceRef ==
  /\ pc = "start"
  /\ pc' = "done"
  /\ result' = decodeSourceRef(document)
  /\ UNCHANGED <<path, parsed, parameter, unique, openapiDefinition, document, heap, hits, cursor>>

NextDecode == DecodeSourceRef

SpecDecode == InitDecode /\ [][NextDecode]_vars

\* ------------------------------------------------------------------- main
\* the characters of a version string
VersionChars(version) ==
  IF version = "3.0.0" THEN <<"3", ".", "0", ".", "0">> ELSE <<"3", ".", "0", ".", "1">>

OpenapiKey == <<"o", "p", "e", "n", "a", "p", "i">>

PathsKey == <<"p", "a", "t", "h", "s">>

ComponentsKey == <<"c", "o", "m", "p", "o", "n", "e", "n", "t", "s">>

ResponsesKey == <<"r", "e", "s", "p", "o", "n", "s", "e", "s">>

DescriptionKey == <<"d", "e", "s", "c", "r", "i", "p", "t", "i", "o", "n">>

GetKey == <<"g", "e", "t">>

\* the strings of the $ref of a response: #/components/responses/r,
\* #/components/responses/zz and x#/components/responses/r
ResponseRefs ==
  { <<"#", "/">> \o ComponentsKey \o <<"/">> \o ResponsesKey \o <<"/", "r">>,
    <<"#", "/">> \o ComponentsKey \o <<"/">> \o ResponsesKey \o <<"/", "z", "z">>,
    <<"x", "#", "/">> \o ComponentsKey \o <<"/">> \o ResponsesKey \o <<"/", "r">> }

\* the document {openapi, paths: {<template>: {get: {responses: {<key>: <response>}}}},
\* components: {responses: {r: {description: "b"}}}} as a heap of 9 nodes; the response
\* is {description: "a"} or {$ref: <ref>}
LoadedGraph(version, template, key, ref) ==
  [id \in 1..9 |->
     CASE id = 1 -> <<[key |-> OpenapiKey, value |-> Str(VersionChars(version))],
                      [key |-> PathsKey, value |-> Node(2)],
                      [key |-> ComponentsKey, value |-> Node(6)]>>
       [] id = 2 -> <<[key |-> template, value |-> Node(3)]>>
       [] id = 3 -> <<[key |-> GetKey, value |-> Node(4)]>>
       [] id = 4 -> <<[key |-> ResponsesKey, value |-> Node(5)]>>
       [] id = 5 -> <<[key |-> key, value |-> Node(7)]>>
       [] id = 6 -> <<[key |-> ResponsesKey, value |-> Node(8)]>>
       [] id = 7 -> IF ref = <<>> THEN <<[key |-> DescriptionKey, value |-> Str(<<"a">>)]>>
                    ELSE <<[key |-> RefKey, value |-> Str(ref)]>>
       [] id = 8 -> <<[key |-> <<"r">>, value |-> Node(9)]>>
       [] id = 9 -> <<[key |-> DescriptionKey, value |-> Str(<<"b">>)]>>]

LoadedTemplates == {<<"/", "p">>, <<"/", "p", "/", "{", "i", "d", "}">>}

LoadedKeys == {<<"2", "0", "0">>, <<"d", "e", "f", "a", "u", "l", "t">>, <<"2", "x", "x">>}

\* the node the property name of node id holds
NodeAt(h, id, name) == Get(h[id], name).value

\* the responses object the modeler reads at node id
responsesRead(h, id) ==
  [i \in 1..Len(h[id]) |->
     [key |-> h[id][i].key,
      value |-> ResponseObject(Member(h, h[id][i].value, DescriptionKey))]]

\* the path item the modeler reads at node id: its get operation
pathItemRead(h, id) ==
  PathItemObject(Absent, Absent,
    [m \in {"get"} |->
       OperationObject(Absent, Absent,
                       responsesRead(h, NodeAt(h, NodeAt(h, id, GetKey), ResponsesKey)))])

\* def as run reads it: the graph under the root of the heap
definitionRead(h) ==
  Document(CHOOSE v \in Versions : VersionChars(v) = Get(h[Root], OpenapiKey).value, Absent,
           [i \in 1..Len(h[NodeAt(h, Root, PathsKey)]) |->
              [key |-> h[NodeAt(h, Root, PathsKey)][i].key,
               value |-> pathItemRead(h, h[NodeAt(h, Root, PathsKey)][i].value.value)]])

InitMain ==
  /\ pc = "main"
  /\ heap = <<>>
  /\ document = <<>>
  /\ hits = <<>>
  /\ cursor = 0
  /\ result = <<>>
  /\ path = <<>>
  /\ parsed = <<>>
  /\ parameter = <<>>
  /\ unique = FALSE
  /\ openapiDefinition = <<>>

\* the modeler is called before the resolver has been
RunUnresolved ==
  /\ pc = "start"
  /\ pc' = IF run(definitionRead(heap)).ok THEN "modelled" ELSE "rejected"
  /\ result' = run(definitionRead(heap))
  /\ openapiDefinition' = runWritten(definitionRead(heap))
  /\ UNCHANGED <<path, parsed, parameter, unique, document, heap, hits, cursor>>

\* rawDef = await ReadUri(...); def = safeLoad(rawDef): a document, or an error
Load ==
  /\ pc = "main"
  /\ \/ \E v \in Versions, t \in LoadedTemplates, k \in LoadedKeys, r \in {<<>>} \cup ResponseRefs :
          /\ heap' = LoadedGraph(v, t, k, r)
          /\ document' = LoadedGraph(v, t, k, r)
          /\ pc' = "start"
          /\ result' = result
     \/ /\ pc' = "unloaded"
        /\ result' = Throw("Failed to load", "")
        /\ UNCHANGED <<heap, document>>
  /\ UNCHANGED <<path, parsed, parameter, unique, openapiDefinition, hits, cursor>>

\* const model = run(def), after resolve(def) has returned
RunResolved ==
  /\ pc = "done"
  /\ pc' = IF run(definitionRead(heap)).ok THEN "modelled" ELSE "rejected"
  /\ result' = run(definitionRead(heap))
  /\ openapiDefinition' = runWritten(definitionRead(heap))
  /\ UNCHANGED <<path, parsed, parameter, unique, document, heap, hits, cursor>>

\* console.log(safeDump(model, ...))
Log ==
  /\ pc = "modelled"
  /\ pc' = "logged"
  /\ UNCHANGED <<path, parsed, parameter, unique, openapiDefinition, result, document, heap, hits, cursor>>

\* catch (e) { console.error(e) }
Catch ==
  /\ pc \in {"unloaded", "thrown", "rejected"}
  /\ pc' = "caught"
  /\ UNCHANGED <<path, parsed, parameter, unique, openapiDefinition, result, document, heap, hits, cursor>>

NextMain == Load \/ CallNodes \/ ResolveHit \/ Return \/ RunResolved \/ Log \/ Catch

SpecMain == InitMain /\ [][NextMain]_vars

\* ------------------------------------------------------------------- claims
\* the components joined again: constants verbatim, parameters as {name}
RECURSIVE Rejoin(_)
Rejoin(cs) ==
  IF cs = <<>> THEN <<>>
  ELSE (IF Head(cs).type = "const" THEN Head(cs).value
        ELSE <<"{">> \o Head(cs).name \o <<"}">>) \o Rejoin(Tail(cs))

\* C9: every template parsePath accepts is reproduced by joining the returned
\* components, constants verbatim and parameters wrapped in braces; a template
\* without braces yields one constant equal to it, the empty template none.
PathRoundTrip ==
  (pc = "done" /\ parsed.ok) =>
     /\ Rejoin(parsed.value) = path
     /\ (path # <<>> /\ \A i \in 1..Len(path) : path[i] \notin {"{", "}"}) =>
           parsed.value = <<[type |-> "const", value |-> path]>>
     /\ path = <<>> => parsed.value = <<>>

\* C10 as claimed: every template with malformed braces is rejected
RECURSIVE WellBraced(_, _)
WellBraced(s, open) ==
  IF s = <<>> THEN ~open
  ELSE IF Head(s) = "{" THEN ~open /\ Tail(s) # <<>> /\ Head(Tail(s)) # "}" /\ WellBraced(Tail(s), TRUE)
  ELSE IF Head(s) = "}" THEN open /\ WellBraced(Tail(s), FALSE)
  ELSE WellBraced(Tail(s), open)

MalformedRejected ==
  (pc = "done" /\ ~WellBraced(path, FALSE)) => ~parsed.ok

\* the (name, location) pairs of a parameter list are pairwise distinct
PairsDistinct(ps) ==
  \A i, j \in 1..Len(ps) :
     i # j => <<ps[i].name, ps[i].location>> # <<ps[j].name, ps[j].location>>

\* C6: checkParameters returns true exactly for the lists whose (name, location)
\* pairs are pairwise distinct, wherever the duplicates stand, and parameters
\* that differ in name or location have different keys.
CheckParametersExact ==
  pc = "done" =>
     /\ unique = PairsDistinct(parameter)
     /\ \A i, j \in 1..Len(parameter) :
           <<parameter[i].name, parameter[i].location>> # <<parameter[j].name, parameter[j].location>>
              => getParameterKey(parameter[i]) # getParameterKey(parameter[j])

\* a list whose duplicates are not neighbours has been found not unique
CheckParametersWitness ==
  /\ pc = "done"
  /\ Len(parameter) = 3
  /\ parameter[1] = parameter[3]
  /\ parameter[1] # parameter[2]
  /\ ~unique

\* ---------------------------------------------- reading a document for the claims
\* a declared list, empty when the field is absent
ListOf(field) == IF field.present THEN field.value ELSE <<>>

\* the document declares exactly one path with exactly one operation
SingleOperation(doc) ==
  /\ Len(doc.paths) = 1
  /\ Cardinality(DOMAIN doc.paths[1].value.operations) = 1

TheTemplate(doc) == doc.paths[1].key

ThePathItem(doc) == doc.paths[1].value

TheOperation(doc) ==
  ThePathItem(doc).operations[CHOOSE m \in DOMAIN ThePathItem(doc).operations : TRUE]

\* the (name, location) pairs of a declared parameter list are pairwise distinct
DeclaredDistinct(ps) ==
  \A i, j \in 1..Len(ps) : i # j => <<ps[i].name, ps[i].in>> # <<ps[j].name, ps[j].in>>

\* a declared parameter of location path that is not required: true
Unrequired(p) == p.in = "path" /\ ~(p.required.present /\ p.required.value)

NoneUnrequired(ps) == \A i \in 1..Len(ps) : ~Unrequired(ps[i])

\* every url of a declared server list is a well-braced template
ServersAccepted(field) ==
  \A i \in 1..Len(ListOf(field)) : WellBraced(ListOf(field)[i].url, FALSE)

\* the one operation of the document gets as far as the path/parameter cross-check:
\* the servers, the security requirements of the document and the declared
\* parameters are accepted
ReachesCrossCheck(doc) ==
  /\ SingleOperation(doc)
  /\ doc.openapi = "3.0.0"
  /\ ServersAccepted(doc.servers)
  /\ WellBraced(TheTemplate(doc), FALSE)
  /\ ServersAccepted(ThePathItem(doc).servers)
  /\ NoneUnrequired(ListOf(ThePathItem(doc).parameters))
  /\ DeclaredDistinct(ListOf(ThePathItem(doc).parameters))
  /\ ServersAccepted(TheOperation(doc).servers)
  /\ NoneUnrequired(ListOf(TheOperation(doc).parameters))
  /\ parseSecurityRequirements(securitySchemesOf(doc), doc.security).ok
  /\ parseParameters(ThePathItem(doc).parameters).ok
  /\ parseParameters(TheOperation(doc).parameters).ok

\* the placeholder names of a well-braced template, in order
RECURSIVE Placeholders(_)
Placeholders(t) ==
  IF \A i \in 1..Len(t) : t[i] # "{" THEN <<>>
  ELSE LET open == CHOOSE i \in 1..Len(t) : t[i] = "{" /\ \A k \in 1..(i - 1) : t[k] # "{"
           close == CHOOSE i \in (open + 1)..Len(t) : t[i] = "}" /\ \A k \in (open + 1)..(i - 1) : t[k] # "}"
       IN <<SubSeq(t, open + 1, close - 1)>> \o Placeholders(SubSeq(t, close + 1, Len(t)))

\* the names of the parameters of location path that the two declared lists hold
DeclaredPathNames(doc) ==
  LET ps == ListOf(ThePathItem(doc).parameters) \o ListOf(TheOperation(doc).parameters)
  IN {ps[i].name : i \in {j \in 1..Len(ps) : ps[j].in = "path"}}

Range(xs) == {xs[i] : i \in 1..Len(xs)}

NoRepeats(xs) == \A i, j \in 1..Len(xs) : i # j => xs[i] # xs[j]

\* C1: a document whose version is not 3.0.0 fails with the version error, whatever
\* else is wrong with it
VersionCheckedFirst ==
  (pc = "done" /\ openapiDefinition.openapi # "3.0.0") =>
     /\ ~result.ok
     /\ result.error = "this modeler is for OpenAPI 3.0.0, found"
     /\ result.detail = openapiDefinition.openapi

\* a document with the wrong version and a malformed server url has failed with
\* the version error
VersionCheckedFirstWitness ==
  /\ pc = "done"
  /\ openapiDefinition.openapi = "3.0.1"
  /\ openapiDefinition.servers.present
  /\ \E i \in 1..Len(openapiDefinition.servers.value) :
        ~WellBraced(openapiDefinition.servers.value[i].url, FALSE)
  /\ ~result.ok
  /\ result.error = "this modeler is for OpenAPI 3.0.0, found"

\* C2 as claimed: the cross-check fails exactly when the set of the names of the
\* merged path parameters differs from the set of the placeholder names
MismatchIffSetsDiffer ==
  (pc = "done" /\ ReachesCrossCheck(openapiDefinition)) =>
     ((~result.ok /\ result.error = "path parameters mismatch")
        <=> DeclaredPathNames(openapiDefinition) # Range(Placeholders(TheTemplate(openapiDefinition))))

\* C2: the cross-check fails with "path parameters mismatch" exactly when the names
\* of the merged path parameters and the placeholder names of the template differ
\* as lists sorted with their repetitions: the merged parameters have distinct
\* keys, so it passes exactly when no placeholder is repeated and the two sets of
\* names are equal, and then no mismatch is reported.
MismatchIffSortedNamesDiffer ==
  (pc = "done" /\ ReachesCrossCheck(openapiDefinition)) =>
     /\ (~result.ok /\ result.error = "path parameters mismatch")
          <=> ~(/\ NoRepeats(Placeholders(TheTemplate(openapiDefinition)))
                /\ DeclaredPathNames(openapiDefinition)
                     = Range(Placeholders(TheTemplate(openapiDefinition))))
     /\ result.ok =>
          \A i \in 1..Len(result.value.operations) :
             LET m == result.value.operations[i]
             IN pathParamsOf(m.parameters) = pathParamsExpectedOf(m.urlSuffix)

\* a template that repeats the placeholder id has been rejected although the one
\* declared path parameter is id
MismatchWitness ==
  /\ pc = "done"
  /\ ReachesCrossCheck(openapiDefinition)
  /\ Placeholders(TheTemplate(openapiDefinition)) = <<<<"i", "d">>, <<"i", "d">>>>
  /\ DeclaredPathNames(openapiDefinition) = {<<"i", "d">>}
  /\ ~result.ok
  /\ result.error = "path parameters mismatch"

\* what identifies a declared and a normalized parameter
DeclaredIdentity(p) == <<p.name, p.in, p.description>>

ParameterIdentity(p) == <<p.name, p.location, p.description>>

\* the merge as claimed: the path-level list with every overridden entry replaced
\* in place, then the operation-level parameters of a new key in declaration order
ClaimedMerge(ps, os) ==
  LET SameKey(a, b) == a.name = b.name /\ a.in = b.in
      Override(i) == os[CHOOSE j \in 1..Len(os) :
                          /\ SameKey(os[j], ps[i])
                          /\ \A k \in (j + 1)..Len(os) : ~SameKey(os[k], ps[i])]
      New(o) == \A i \in 1..Len(ps) : ~SameKey(o, ps[i])
      news == SelectSeq(os, New)
  IN [i \in 1..Len(ps) |->
        DeclaredIdentity(IF \E j \in 1..Len(os) : SameKey(os[j], ps[i]) THEN Override(i) ELSE ps[i])]
       \o [i \in 1..Len(news) |-> DeclaredIdentity(news[i])]

\* C3 as claimed: the merged list is the path-level list with the overridden
\* entries replaced at their index, followed by every operation-level parameter
\* of a new key
MergeIsOverrideThenAppend ==
  (pc = "done" /\ SingleOperation(openapiDefinition) /\ result.ok) =>
     LET merged == result.value.operations[1].parameters
     IN [i \in 1..Len(merged) |-> ParameterIdentity(merged[i])]
          = ClaimedMerge(ListOf(ThePathItem(openapiDefinition).parameters),
                         ListOf(TheOperation(openapiDefinition).parameters))

\* C4 as claimed: a repeated (name, location) key in the path-level list of a path
\* item or in the operation-level list of an operation is a fatal error
DuplicateKeysRejected ==
  (/\ pc = "done"
   /\ \E i \in 1..Len(openapiDefinition.paths) :
        LET item == openapiDefinition.paths[i].value
        IN \/ ~DeclaredDistinct(ListOf(item.parameters))
           \/ \E m \in DOMAIN item.operations :
                 ~DeclaredDistinct(ListOf(item.operations[m].parameters)))
     => ~result.ok

\* C5: a declared parameter of location path that is not required: true, at path
\* level or at operation level, is a fatal error and no Model is returned, also
\* when the merge would have overridden it
UnrequiredPathParameterRejected ==
  (/\ pc = "done"
   /\ \E i \in 1..Len(openapiDefinition.paths) :
        LET item == openapiDefinition.paths[i].value
        IN \/ \E k \in 1..Len(ListOf(item.parameters)) : Unrequired(ListOf(item.parameters)[k])
           \/ \E m \in DOMAIN item.operations :
                 \E k \in 1..Len(ListOf(item.operations[m].parameters)) :
                    Unrequired(ListOf(item.operations[m].parameters)[k]))
     => ~result.ok

\* a path-level path parameter without required, overridden by a required one of
\* the operation, has been rejected when it was parsed
UnrequiredPathParameterWitness ==
  /\ pc = "done"
  /\ SingleOperation(openapiDefinition)
  /\ openapiDefinition.openapi = "3.0.0"
  /\ TheTemplate(openapiDefinition) = <<"/", "p", "/", "{", "i", "d", "}">>
  /\ LET ps == ListOf(ThePathItem(openapiDefinition).parameters)
         os == ListOf(TheOperation(openapiDefinition).parameters)
     IN /\ Len(ps) = 1 /\ Len(os) = 1
        /\ ps[1].name = <<"i", "d">> /\ ps[1].in = "path" /\ ~ps[1].required.present
        /\ os[1].name = <<"i", "d">> /\ os[1].in = "path"
        /\ os[1].required.present /\ os[1].required.value
  /\ ~result.ok
  /\ result.error = "expected required=true on path parameter"

\* three characters, each a digit or an upper-case X
ThreeDigitsOrX(k) ==
  /\ Len(k) = 3
  /\ \A i \in 1..Len(k) : k[i] \in {"0", "1", "2", "3", "4", "5", "6", "7", "8", "9", "X"}

IsDefault(k) == k = <<"d", "e", "f", "a", "u", "l", "t">>

\* the status key the claim gives a declared key
ClaimedStatusKey(k) == IF IsDefault(k) THEN <<"X", "X", "X">> ELSE k

\* the one operation of the document gets as far as its responses: the cross-check
\* passes, and its request body and security requirements are accepted
ReachesResponses(doc) ==
  /\ ReachesCrossCheck(doc)
  /\ NoRepeats(Placeholders(TheTemplate(doc)))
  /\ DeclaredPathNames(doc) = Range(Placeholders(TheTemplate(doc)))
  /\ parseRequestBody(TheOperation(doc).requestBody).ok
  /\ parseSecurityRequirements(securitySchemesOf(doc), TheOperation(doc).security).ok

\* C7: the key default is emitted as XXX, a key of three digits or upper-case X is
\* emitted unchanged, and any other declared key is a fatal error
StatusKeysNormalized ==
  (pc = "done" /\ ReachesResponses(openapiDefinition)) =>
     LET declared == TheOperation(openapiDefinition).responses
         Valid(i) == IsDefault(declared[i].key) \/ ThreeDigitsOrX(declared[i].key)
     IN IF \A i \in 1..Len(declared) : Valid(i)
        THEN /\ result.ok
             /\ \A i \in 1..Len(declared) :
                  \E j \in 1..Len(result.value.operations[1].responses) :
                     LET r == result.value.operations[1].responses[j]
                     IN /\ r.key = ClaimedStatusKey(declared[i].key)
                        /\ r.description = declared[i].value.description
        ELSE /\ ~result.ok
             /\ result.error = "invalid HTTP status code pattern"

\* default has been emitted as XXX next to the literal key 200
StatusKeysWitness ==
  /\ pc = "done"
  /\ ReachesResponses(openapiDefinition)
  /\ result.ok
  /\ LET declared == TheOperation(openapiDefinition).responses
     IN /\ \E i \in 1..Len(declared) : IsDefault(declared[i].key)
        /\ \E i \in 1..Len(declared) : declared[i].key = <<"2", "0", "0">>
        /\ \E j \in 1..Len(result.value.operations[1].responses) :
              result.value.operations[1].responses[j].key = <<"X", "X", "X">>

\* the number of X characters of a key
RECURSIVE XCount(_)
XCount(k) ==
  IF k = <<>> THEN 0 ELSE (IF Head(k) = "X" THEN 1 ELSE 0) + XCount(Tail(k))

\* C8: the responses of every Method are ordered by non-decreasing count of X in
\* the status key, and they are a permutation of the declared responses
ResponsesSortedByWildcards ==
  (pc = "done" /\ result.ok) =>
     /\ \A n \in 1..Len(result.value.operations) :
          LET rs == result.value.operations[n].responses
          IN \A i, j \in 1..Len(rs) : i < j => XCount(rs[i].key) <= XCount(rs[j].key)
     /\ SingleOperation(openapiDefinition) =>
          LET rs == result.value.operations[1].responses
              declared == TheOperation(openapiDefinition).responses
          IN /\ Len(rs) = Len(declared)
             /\ {<<rs[i].key, rs[i].description>> : i \in 1..Len(rs)}
                  = {<<ClaimedStatusKey(declared[i].key), declared[i].value.description>> :
                       i \in 1..Len(declared)}

\* responses declared as default, 2XX, 200 have been returned as 200, 2XX, XXX
ResponsesSortedWitness ==
  /\ pc = "done"
  /\ result.ok
  /\ SingleOperation(openapiDefinition)
  /\ LET declared == TheOperation(openapiDefinition).responses
         rs == result.value.operations[1].responses
     IN /\ Len(declared) = 3
        /\ IsDefault(declared[1].key)
        /\ declared[2].key = <<"2", "X", "X">>
        /\ declared[3].key = <<"2", "0", "0">>
        /\ [i \in 1..3 |-> rs[i].key] = <<<<"2", "0", "0">>, <<"2", "X", "X">>, <<"X", "X", "X">>>>

\* a template with a parameter between two constants has been parsed and joins
\* to itself
PathRoundTripWitness ==
  /\ pc = "done"
  /\ parsed.ok
  /\ path = <<"/", "{", "a", "}", "/">>
  /\ Len(parsed.value) = 3
  /\ Rejoin(parsed.value) = path

\* a declared server list as parseServers returns it
ClaimedServers(field) ==
  [i \in 1..Len(field.value) |->
     [urlPrefix |-> parsePath(field.value[i].url).value, variables |-> {}]]

\* the server that stands in for a document without servers
SyntheticServer == [urlPrefix |-> <<[type |-> "const", value |-> <<"/">>]>>, variables |-> {}]

\* C11: the server list of a Method is the parsed operation-level list when the
\* operation declares servers, else the parsed path-level list when the path item
\* declares servers, else the parsed document-level list, which is the one
\* synthetic server / when the document declares no server (absent or empty list)
ServersThreeLevelOverride ==
  (pc = "done" /\ SingleOperation(openapiDefinition) /\ result.ok) =>
     /\ Len(result.value.operations) = 1
     /\ result.value.operations[1].servers =
          IF TheOperation(openapiDefinition).servers.present
          THEN ClaimedServers(TheOperation(openapiDefinition).servers)
          ELSE IF ThePathItem(openapiDefinition).servers.present
          THEN ClaimedServers(ThePathItem(openapiDefinition).servers)
          ELSE IF openapiDefinition.servers.present /\ openapiDefinition.servers.value # <<>>
          THEN ClaimedServers(openapiDefinition.servers)
          ELSE <<SyntheticServer>>

\* an operation without servers under a path item with the server /v1, in a
\* document that declares another server, has got the server of the path item
ServersOverrideWitness ==
  /\ pc = "done"
  /\ SingleOperation(openapiDefinition)
  /\ result.ok
  /\ ~TheOperation(openapiDefinition).servers.present
  /\ ThePathItem(openapiDefinition).servers.present
  /\ Len(ThePathItem(openapiDefinition).servers.value) = 1
  /\ ThePathItem(openapiDefinition).servers.value[1].url = <<"/", "v", "1">>
  /\ openapiDefinition.servers.present
  /\ Len(openapiDefinition.servers.value) = 1
  /\ openapiDefinition.servers.value[1].url # <<"/", "v", "1">>
  /\ result.value.operations[1].servers
       = <<[urlPrefix |-> <<[type |-> "const", value |-> <<"/", "v", "1">>]>>, variables |-> {}]>>

\* the names the registry of the document declares
RegistryNames(doc) ==
  {ListOf(doc.components.securitySchemes)[i].key :
     i \in 1..Len(ListOf(doc.components.securitySchemes))}

\* a security field names a scheme the registry does not declare
NamesUndeclared(doc, security) ==
  \E i \in 1..Len(ListOf(security)) :
    \E j \in 1..Len(ListOf(security)[i]) : ListOf(security)[i][j].key \notin RegistryNames(doc)

\* alternative a pairs every name of the requirement object sec with its registry
\* entry and its declared scopes, and holds nothing else
PairsOf(doc, sec, a) ==
  /\ Len(a) = Len(sec)
  /\ Range(a) = {[scheme |-> Get(doc.components.securitySchemes.value, sec[j].key),
                  scopes |-> sec[j].value] : j \in 1..Len(sec)}

\* alternatives is the resolved structure of a declared security list
ResolvedAs(doc, security, alternatives) ==
  /\ Len(alternatives) = Len(security)
  /\ \A i \in 1..Len(security) : PairsOf(doc, security[i], alternatives[i])

\* C12: a document of version 3.0.0 with one operation fails when its security or
\* the security of the operation names a scheme the registry does not declare, and
\* otherwise the alternatives of the method are, one per requirement object and in
\* declared order, the (registry entry, scopes) pairs of the names of the object
UndeclaredSchemeRejected ==
  (pc = "done" /\ SingleOperation(openapiDefinition) /\ openapiDefinition.openapi = "3.0.0") =>
     IF \/ NamesUndeclared(openapiDefinition, openapiDefinition.security)
        \/ NamesUndeclared(openapiDefinition, TheOperation(openapiDefinition).security)
     THEN ~result.ok
     ELSE result.ok =>
            ResolvedAs(openapiDefinition,
                       IF TheOperation(openapiDefinition).security.present
                       THEN TheOperation(openapiDefinition).security.value
                       ELSE ListOf(openapiDefinition.security),
                       result.value.operations[1].security)

\* the alternatives the code resolves a security field to
Resolved(doc, security) ==
  [i \in 1..Len(security.value) |->
     [j \in 1..Len(keys(security.value[i])) |->
        [scheme |-> Lookup(ListOf(doc.components.securitySchemes),
                           keys(security.value[i])[j]).value,
         scopes |-> Get(security.value[i], keys(security.value[i])[j])]]]

\* C13: the alternatives of a method are those of the security of its operation when
\* the operation declares one, be it the empty list, and else those of the document,
\* the empty list when the document declares none
OperationSecurityOverrides ==
  (pc = "done" /\ SingleOperation(openapiDefinition) /\ result.ok) =>
     result.value.operations[1].security
       = IF TheOperation(openapiDefinition).security.present
         THEN Resolved(openapiDefinition, TheOperation(openapiDefinition).security)
         ELSE IF openapiDefinition.security.present
         THEN Resolved(openapiDefinition, openapiDefinition.security)
         ELSE <<>>

\* an operation that declares the empty list under a document that requires k has
\* come out with no alternatives
OperationSecurityWitness ==
  /\ pc = "done"
  /\ SingleOperation(openapiDefinition)
  /\ result.ok
  /\ TheOperation(openapiDefinition).security = Some(<<>>)
  /\ openapiDefinition.security = Some(<<<<[key |-> <<"k">>, value |-> <<>>]>>>>)
  /\ result.value.operations[1].security = <<>>

\* the one parameter the one operation of the document declares
TheParameter(doc) == TheOperation(doc).parameters.value[1]

\* the operation of the document declares one parameter and the path level none
SingleParameter(doc) ==
  /\ SingleOperation(doc)
  /\ ~ThePathItem(doc).parameters.present
  /\ TheOperation(doc).parameters.present
  /\ Len(TheOperation(doc).parameters.value) = 1

\* the style the parameter declares, or else form for query and cookie, simple for
\* header and path
ClaimedStyle(p) ==
  IF p.style.present THEN p.style.value
  ELSE IF p.in \in {"query", "cookie"} THEN "form" ELSE "simple"

\* the explode the parameter declares, or else whether the style is form
ClaimedExplode(p) ==
  IF p.explode.present THEN p.explode.value ELSE ClaimedStyle(p) = "form"

\* C14: the format of a normalized parameter has the declared style, or form for
\* query and cookie and simple for header and path, and the declared explode, or
\* true exactly for the style form; a declared explode: false comes out false
FormatAsDeclaredOrDefault ==
  (pc = "done" /\ SingleParameter(openapiDefinition) /\ result.ok) =>
     /\ Len(result.value.operations[1].parameters) = 1
     /\ result.value.operations[1].parameters[1].format
          = [style |-> ClaimedStyle(TheParameter(openapiDefinition)),
             explode |-> ClaimedExplode(TheParameter(openapiDefinition))]

\* the schemas the code parses below a schema: those of allOf, oneOf, anyOf and not,
\* those of properties and additionalProperties of an object and the items of an array
NestedSchemas(schema) ==
  LET Listed(field) == IF field.present THEN Range(field.value) ELSE {}
      One(field) == IF field.present /\ ~IsBoolean(field.value) THEN {field.value} ELSE {}
      declared == IF schema.type.present THEN schema.type.value ELSE "object"
  IN Listed(schema.allOf) \cup Listed(schema.oneOf) \cup Listed(schema.anyOf)
       \cup One(schema.not)
       \cup (IF declared = "array" THEN One(schema.items) ELSE {})
       \cup (IF declared = "object"
             THEN One(schema.additionalProperties)
                    \cup {ListOf(schema.properties)[i].value :
                            i \in 1..Len(ListOf(schema.properties))}
             ELSE {})

\* the schema, or a schema below it, declares a type that is none of the seven tags
RECURSIVE UnknownTag(_)
UnknownTag(schema) ==
  \/ schema.type.present /\ schema.type.value \notin TypeTags
  \/ \E s \in NestedSchemas(schema) : UnknownTag(s)

\* C15: the schema of a parameter fails with the unknown type error when it or a
\* schema below it declares a type that is none of the seven tags, and is else
\* tagged with its declared type, object when it declares none
SchemaTagged ==
  (/\ pc = "done"
   /\ SingleParameter(openapiDefinition)
   /\ openapiDefinition.openapi = "3.0.0"
   /\ TheParameter(openapiDefinition).in = "query"
   /\ TheParameter(openapiDefinition).schema.present) =>
     IF UnknownTag(TheParameter(openapiDefinition).schema.value)
     THEN ~result.ok /\ result.error = "unknown type"
     ELSE /\ result.ok
          /\ result.value.operations[1].parameters[1].content[1].value.schema.value.type
               = IF TheParameter(openapiDefinition).schema.value.type.present
                 THEN TheParameter(openapiDefinition).schema.value.type.value
                 ELSE "object"

\* the names of the entries of a map
Names(o) == {o[i].key : i \in 1..Len(o)}

\* the media type is multipart/* or application/x-www-form-urlencoded
FormMediaType(mediaType) ==
  \/ StartsWith(mediaType, <<"m", "u", "l", "t", "i", "p", "a", "r", "t", "/">>)
  \/ mediaType = <<"a", "p", "p", "l", "i", "c", "a", "t", "i", "o", "n", "/",
                   "x", "-", "w", "w", "w", "-", "f", "o", "r", "m", "-",
                   "u", "r", "l", "e", "n", "c", "o", "d", "e", "d">>

\* C20: the encoding map of a media type of a request body has one entry per declared
\* encoding property when the media type is multipart/* or
\* application/x-www-form-urlencoded and the parsed schema is of type object, and is
\* empty for every other media type and every other schema
EncodingsForFormsOnly ==
  (pc = "done" /\ SingleOperation(openapiDefinition) /\ result.ok
     /\ TheOperation(openapiDefinition).requestBody.present) =>
     LET declared == TheOperation(openapiDefinition).requestBody.value.content
         content == result.value.operations[1].parameterBody.value.content
     IN /\ Len(content) = Len(declared)
        /\ \A i \in 1..Len(declared) :
             /\ content[i].key = declared[i].key
             /\ IF /\ FormMediaType(declared[i].key)
                   /\ content[i].value.schema.value.type = "object"
                THEN Names(content[i].value.encoding) = Names(ListOf(declared[i].value.encoding))
                ELSE content[i].value.encoding = <<>>

\* C19: no step changes the document: what run was given is what it leaves
InputUntouched == [][openapiDefinition' = openapiDefinition]_vars

\* the nodes a node holds
Children(h, id) ==
  {h[id][i].value.value : i \in {j \in 1..Len(h[id]) : h[id][j].value.kind = "node"}}

RECURSIVE ReachFrom(_, _)
ReachFrom(h, seen) ==
  LET next == seen \cup UNION {Children(h, id) : id \in seen}
  IN IF next = seen THEN seen ELSE ReachFrom(h, next)

\* the nodes of the graph below the root, the root included
Reachable(h) == ReachFrom(h, {Root})

\* the node has a $ref field
CarriesRef(h, id) == \E i \in 1..Len(h[id]) : h[id][i].key = RefKey

\* the $ref of a node that carries one
RefOf(h, id) == Get(h[id], RefKey).value

\* a reference token of a JSON pointer, decoded in one pass: ~0 is ~ and ~1 is /
RECURSIVE DecodeToken(_)
DecodeToken(token) ==
  IF token = <<>> THEN <<>>
  ELSE IF Len(token) >= 2 /\ Head(token) = "~" /\ token[2] \in {"0", "1"}
  THEN <<IF token[2] = "0" THEN "~" ELSE "/">> \o DecodeToken(SubSeq(token, 3, Len(token)))
  ELSE <<Head(token)>> \o DecodeToken(Tail(token))

\* the decoded segments of the pointer # or #/token/token... of a reference
Segments(ref) ==
  IF Len(ref) <= 1 THEN <<>>
  ELSE LET tokens == Split(SubSeq(ref, 3, Len(ref)), "/")
       IN [i \in 1..Len(tokens) |-> DecodeToken(tokens[i])]

\* the reference is # followed by nothing or by /token/token...
IsLocal(ref) == ref # <<>> /\ Head(ref) = "#" /\ (Len(ref) > 1 => ref[2] = "/")

\* the value the names designate from a value, by the properties the nodes have
RECURSIVE Designated(_, _, _)
Designated(h, value, names) ==
  IF names = <<>> THEN Some(value)
  ELSE IF /\ value.kind = "node"
          /\ \E i \in 1..Len(h[value.value]) : h[value.value][i].key = Head(names)
  THEN Designated(h, Get(h[value.value], Head(names)), Tail(names))
  ELSE Absent

\* the value at a place of the graph
At(h, place) == Designated(h, Node(Root), place)

\* the place holds the node id itself
HoldsNode(h, place, id) ==
  At(h, place).present /\ At(h, place).value.kind = "node" /\ At(h, place).value.value = id

\* the node is tagged with the segments
Tagged(h, id, segments) ==
  \E j \in 1..Len(h[id]) :
    /\ h[id][j].key = PathKey
    /\ h[id][j].value.kind = "array"
    /\ h[id][j].value.value = segments

\* no $ref of the document designates a node that carries a $ref
NoChain(h) ==
  \A id \in Reachable(h) :
    (/\ CarriesRef(h, id)
     /\ IsLocal(RefOf(h, id))
     /\ Designated(h, Node(Root), Segments(RefOf(h, id))).present
     /\ Designated(h, Node(Root), Segments(RefOf(h, id))).value.kind = "node") =>
       ~CarriesRef(h, Designated(h, Node(Root), Segments(RefOf(h, id))).value.value)

AllResolvable(h) ==
  \A id \in Reachable(h) :
    CarriesRef(h, id) =>
      /\ IsLocal(RefOf(h, id))
      /\ Designated(h, Node(Root), Segments(RefOf(h, id))).present
      /\ Designated(h, Node(Root), Segments(RefOf(h, id))).value.kind = "node"
      /\ ~CarriesRef(h, Designated(h, Node(Root), Segments(RefOf(h, id))).value.value)

\* C17: when resolve has returned from a document whose every $ref is a local pointer
\* to a node without $ref, no node below the root carries a $ref
NoReferenceLeft ==
  (pc = "done" /\ AllResolvable(document)) =>
     \A id \in Reachable(heap) : ~CarriesRef(heap, id)

\* C18: resolve does not return from a document with a $ref that does not begin with #
\* or whose pointer designates nothing, and when it throws, the place of the hit it
\* was at still holds the node with the $ref
BadReferenceThrows ==
  /\ pc = "done" =>
       \A id \in Reachable(document) :
         CarriesRef(document, id) =>
           /\ RefOf(document, id) # <<>>
           /\ Head(RefOf(document, id)) = "#"
           /\ Designated(document, Node(Root), Segments(RefOf(document, id))).present
  /\ pc = "thrown" => HoldsNode(heap, hits[cursor].path, hits[cursor].value)

\* the one media type object of the request body of the one operation
TheMediaType(doc) == TheOperation(doc).requestBody.value.content[1]

\* the schema a media type object declares is of type object
ObjectTyped(mediaTypeObject) ==
  \/ ~mediaTypeObject.schema.present
  \/ mediaTypeObject.schema.value.type \in {Absent, Some("object")}

\* the names of the properties the schema of a media type object declares
DeclaredProperties(mediaTypeObject) ==
  IF mediaTypeObject.schema.present
  THEN Names(ListOf(mediaTypeObject.schema.value.properties))
  ELSE {}

\* C21: an encoding entry of a multipart or form-urlencoded media type with an
\* object-typed schema whose property name is not among the declared properties of
\* the schema is a fatal error
UnknownEncodingRejected ==
  (/\ pc = "done"
   /\ SingleOperation(openapiDefinition)
   /\ TheOperation(openapiDefinition).requestBody.present
   /\ FormMediaType(TheMediaType(openapiDefinition).key)
   /\ ObjectTyped(TheMediaType(openapiDefinition).value)
   /\ Names(ListOf(TheMediaType(openapiDefinition).value.encoding))
        \ DeclaredProperties(TheMediaType(openapiDefinition).value) # {})
     => ~result.ok

\* the default media type the claim gives a declared schema
RECURSIVE ClaimedMediaType(_)
ClaimedMediaType(schema) ==
  LET type == IF schema.type.present THEN schema.type.value ELSE "object"
  IN CASE type = "string" ->
            IF schema.format = Some("binary") THEN "application/octet-stream" ELSE "text/plain"
       [] type \in {"number", "integer", "boolean", "null"} -> "text/plain"
       [] type = "object" -> "application/json"
       [] type = "array" -> ClaimedMediaType(schema.items.value)

\* the encodings run returned for the one media type of the request body
TheEncodings == result.value.operations[1].parameterBody.value.content[1].value.encoding

\* the encoding and the schema declared for the encoded property name
DeclaredEncoding(doc, name) == Get(TheMediaType(doc).value.encoding.value, name)

DeclaredProperty(doc, name) == Get(TheMediaType(doc).value.schema.value.properties.value, name)

\* the parameter schema run returned for the one parameter of the one operation
TheParsedSchema == result.value.operations[1].parameters[1].content[1].value.schema.value

\* C22 as claimed: the content type of an encoding is the declared one whenever one
\* is declared
ContentTypeDeclaredOrDefault ==
  (pc = "done" /\ result.ok /\ SingleOperation(openapiDefinition)
     /\ TheOperation(openapiDefinition).requestBody.present) =>
     \A i \in 1..Len(TheEncodings) :
        TheEncodings[i].value.contentType =
          IF DeclaredEncoding(openapiDefinition, TheEncodings[i].key).contentType.present
          THEN DeclaredEncoding(openapiDefinition, TheEncodings[i].key).contentType.value
          ELSE ClaimedMediaType(DeclaredProperty(openapiDefinition, TheEncodings[i].key))

\* C22: the content type of an encoding is the declared contentType when one is
\* declared and is not the empty string, and otherwise the default of the schema of
\* the property: application/octet-stream for a binary string, text/plain for any
\* other string, number, integer, boolean and null, application/json for object, and
\* for array the default of its items; and getDefaultMediaType returns a value for
\* every schema parseSchema returns
ContentTypeNonEmptyOrDefault ==
  /\ (pc = "done" /\ result.ok /\ SingleOperation(openapiDefinition)
        /\ TheOperation(openapiDefinition).requestBody.present) =>
        \A i \in 1..Len(TheEncodings) :
           TheEncodings[i].value.contentType =
             IF /\ DeclaredEncoding(openapiDefinition, TheEncodings[i].key).contentType.present
                /\ DeclaredEncoding(openapiDefinition, TheEncodings[i].key).contentType.value # ""
             THEN DeclaredEncoding(openapiDefinition, TheEncodings[i].key).contentType.value
             ELSE ClaimedMediaType(DeclaredProperty(openapiDefinition, TheEncodings[i].key))
  /\ (pc = "done" /\ result.ok /\ SingleParameter(openapiDefinition)
        /\ TheParameter(openapiDefinition).schema.present) =>
        getDefaultMediaType(TheParsedSchema).ok

\* an array of arrays of binary strings, encoded without a content type, has got
\* application/octet-stream
ContentTypeWitness ==
  /\ pc = "done"
  /\ result.ok
  /\ SingleOperation(openapiDefinition)
  /\ TheOperation(openapiDefinition).requestBody.present
  /\ TheMediaType(openapiDefinition).value.encoding
       = Some(<<[key |-> <<"a">>, value |-> EncodingPropertyObject(Absent, Absent)]>>)
  /\ TheMediaType(openapiDefinition).value.schema.present
  /\ TheMediaType(openapiDefinition).value.schema.value.properties
       = Some(<<[key |-> <<"a">>, value |-> ArraySchema(ArraySchema(BinarySchema))]>>)
  /\ Len(TheEncodings) = 1
  /\ TheEncodings[1].value.contentType = "application/octet-stream"

\* the content map run returned for the one parameter of the one operation
TheParsedContent == result.value.operations[1].parameters[1].content

\* the examples the claim gives an object: the declared ones, and the declared example
\* under the empty key
ClaimedExamples(obj) ==
  IF obj.example.present
  THEN Put(ListOf(obj.examples), <<>>, [value |-> obj.example.value])
  ELSE ListOf(obj.examples)

\* the schema of a declared schema or media type object as the claim has it
ClaimedSchema(schema) == IF schema.present THEN Some(parseSchema(schema.value).value) ELSE Absent

\* C23 as claimed: the content map of a parameter holds one entry for each declared
\* media type, each as declared, and one more under the empty key that holds the
\* inline schema and the examples, a declared example under the empty key
ParameterContentFolded ==
  (pc = "done" /\ result.ok /\ SingleParameter(openapiDefinition)) =>
     LET declared == ListOf(TheParameter(openapiDefinition).content)
     IN /\ Len(TheParsedContent) = Len(declared) + 1
        /\ \A i \in 1..Len(declared) :
             \E j \in 1..Len(TheParsedContent) :
                /\ TheParsedContent[j].key = declared[i].key
                /\ TheParsedContent[j].value.schema
                     = Some(parseSchema(schemaOrEmpty(declared[i].value)).value)
                /\ TheParsedContent[j].value.examples = ClaimedExamples(declared[i].value)
        /\ \E j \in 1..Len(TheParsedContent) :
             /\ TheParsedContent[j].key = <<>>
             /\ TheParsedContent[j].value.schema
                  = ClaimedSchema(TheParameter(openapiDefinition).schema)
             /\ TheParsedContent[j].value.examples
                  = ClaimedExamples(TheParameter(openapiDefinition))

\* the methods in the order the specification fixes
FixedOrder == <<"get", "put", "post", "delete", "options", "head", "patch", "trace">>

\* the methods a path item declares, in the fixed order
MethodsOf(pathItem) ==
  LET Written(m) == m \in DOMAIN pathItem.operations IN SelectSeq(FixedOrder, Written)

\* the (path, method) pairs a document declares: the paths in declaration order and,
\* within a path item, the methods in the fixed order
DeclaredPairs(doc) ==
  Flatten([i \in 1..Len(doc.paths) |->
             [j \in 1..Len(MethodsOf(doc.paths[i].value)) |->
                [template |-> doc.paths[i].key,
                 operation |-> doc.paths[i].value.operations[MethodsOf(doc.paths[i].value)[j]]]]])

\* the descriptions of the responses of a declared operation
DeclaredDescriptions(operationObject) ==
  {operationObject.responses[i].value.description : i \in 1..Len(operationObject.responses)}

\* the descriptions of the responses of a Method
Descriptions(method) == {method.responses[i].description : i \in 1..Len(method.responses)}

\* C24: the operations of a returned Model are the declared (path, method) pairs, one
\* Method each and nothing else, the paths in declaration order and the methods of a
\* path item in the order get, put, post, delete, options, head, patch, trace
OneMethodPerDeclaredPair ==
  (pc = "done" /\ result.ok) =>
     /\ Len(result.value.operations) = Len(DeclaredPairs(openapiDefinition))
     /\ \A k \in 1..Len(result.value.operations) :
          /\ result.value.operations[k].urlSuffix
               = parsePath(DeclaredPairs(openapiDefinition)[k].template).value
          /\ Descriptions(result.value.operations[k])
               = DeclaredDescriptions(DeclaredPairs(openapiDefinition)[k].operation)

\* /q declares trace, put and get and comes before /p, which declares post and delete:
\* the Model holds get, put and trace of /q, then post and delete of /p
OneMethodPerDeclaredPairWitness ==
  /\ pc = "done"
  /\ result.ok
  /\ Len(openapiDefinition.paths) = 2
  /\ openapiDefinition.paths[1].key = <<"/", "q">>
  /\ DOMAIN openapiDefinition.paths[1].value.operations = {"trace", "put", "get"}
  /\ DOMAIN openapiDefinition.paths[2].value.operations = {"post", "delete"}
  /\ Len(result.value.operations) = 5
  /\ [k \in 1..5 |-> Descriptions(result.value.operations[k])] = <<{1}, {2}, {8}, {3}, {4}>>
  /\ result.value.operations[3].urlSuffix = parsePath(<<"/", "q">>).value
  /\ result.value.operations[4].urlSuffix = parsePath(<<"/", "p">>).value

\* JSON-Pointer escaping of a property name: ~ to ~0, then / to ~1
RECURSIVE Escaped(_)
Escaped(name) ==
  IF name = <<>> THEN <<>>
  ELSE (CASE Head(name) = "~" -> <<"~", "0">>
          [] Head(name) = "/" -> <<"~", "1">>
          [] OTHER -> <<Head(name)>>) \o Escaped(Tail(name))

\* the property names whose escaping is a pointer of the documents
PropertyNames ==
  {name \in UNION {PointersOfLength(n) : n \in 0..MaxPointerLen} :
     Len(Escaped(name)) <= MaxPointerLen}

\* C25: the segment decoding of resolve is the inverse of JSON-Pointer escaping: the
\* $ref #/<escaped s> is decoded to the one segment s, and the source path evaluated
\* names the property s
DecodingInvertsEscaping ==
  pc = "done" =>
     \A name \in PropertyNames :
        document = <<"#", "/">> \o Escaped(name) =>
           /\ result.ok
           /\ result.value.sourceRefPartsDecoded = <<name>>
           /\ result.value.sourcePath = <<name>>

\* the segment ~01 has been decoded to ~1
DecodingInvertsEscapingWitness ==
  /\ pc = "done"
  /\ document = <<"#", "/", "~", "0", "1">>
  /\ document = <<"#", "/">> \o Escaped(<<"~", "1">>)
  /\ result.ok
  /\ result.value.sourceRefPartsDecoded = <<<<"~", "1">>>>

\* C26: the modeler is started only when the resolver has returned, and on the graph
\* the resolver left; once the resolver has thrown the modeler is never started and no
\* model is written; once the modeler has thrown no model is written
PipelineInSequence ==
  /\ [][(openapiDefinition' # openapiDefinition) =>
           (pc = "done" /\ cursor > Len(hits)
              /\ result' = run(definitionRead(heap)))]_vars
  /\ [][(pc' = "logged") => (pc = "modelled" /\ result.ok /\ result' = result)]_vars
  /\ [](pc = "thrown" => [](openapiDefinition = <<>> /\ pc \notin {"modelled", "rejected", "logged"}))
  /\ [](pc = "rejected" => [](pc \notin {"modelled", "logged"}))

\* the resolver has thrown on the second segment of a $ref that names no node, the
\* error has been caught and the modeler has not been started
PipelineResolverThrewWitness ==
  /\ pc = "caught"
  /\ heap # <<>>
  /\ hits # <<>>
  /\ cursor = 1
  /\ ~result.ok
  /\ result.error = "TypeError"
  /\ openapiDefinition = <<>>

\* the graph holds a node that is reached from itself
Cyclic(h) == \E id \in Reachable(h) : id \in ReachFrom(h, Children(h, id))

\* the $ref of the hit names the hit's parent or an ancestor of it
RefersToAncestor(h, hit) ==
  /\ IsLocal(RefOf(h, hit.value))
  /\ Len(Segments(RefOf(h, hit.value))) < Len(hit.path)
  /\ Segments(RefOf(h, hit.value)) = SubSeq(hit.path, 1, Len(Segments(RefOf(h, hit.value))))

\* C27: resolve terminates; the hits are those of the document as it was passed and
\* are not collected again; the rounds take the hits one after the other, each once,
\* and a return follows the last; a document with a $ref to an ancestor is returned
\* as a graph with a cycle
ResolveTerminates ==
  /\ <>(pc \in {"done", "thrown"})
  /\ [](pc \in {"loop", "done", "thrown"} => hits = nodes(document))
  /\ [][(pc = "loop" /\ pc' = "loop") => cursor' = cursor + 1]_vars
  /\ [][(pc = "loop" /\ pc' = "done") => cursor = Len(hits) + 1]_vars
  /\ []((pc = "done" /\ \E i \in 1..Len(hits) : RefersToAncestor(document, hits[i]))
          => (Cyclic(heap) /\ ~Cyclic(document)))

\* resolve has returned a graph in which c.s is c
ResolveTerminatesWitness ==
  /\ pc = "done"
  /\ Len(hits) >= 1
  /\ RefOf(document, hits[Len(hits)].value) = <<"#", "/", "c">>
  /\ hits[Len(hits)].path = <<<<"c">>, <<"s">>>>
  /\ Cyclic(heap)
  /\ At(heap, <<<<"c">>, <<"s">>>>) = At(heap, <<<<"c">>>>)

\* the (name, location) keys of a list of parameters of a Method
KeysOf(parameters) ==
  [i \in 1..Len(parameters) |-> <<parameters[i].name, parameters[i].location>>]

\* C28: the merged parameter list of every Method of a returned Model holds no two
\* parameters of the same (name, location) key, also when the operation-level list
\* repeats a key
MergedKeysDistinct ==
  (pc = "done" /\ result.ok) =>
     \A k \in 1..Len(result.value.operations) :
        NoRepeats(KeysOf(result.value.operations[k].parameters))

\* a document whose operation-level list repeats a key has been accepted, and the
\* merged list holds one parameter of that key
MergedKeysDistinctWitness ==
  /\ pc = "done"
  /\ result.ok
  /\ SingleOperation(openapiDefinition)
  /\ Len(ListOf(TheOperation(openapiDefinition).parameters)) = 2
  /\ ~DeclaredDistinct(ListOf(TheOperation(openapiDefinition).parameters))
  /\ Len(result.value.operations[1].parameters) = 1

\* the status keys of the responses of a Method
StatusKeysOf(responses) == [i \in 1..Len(responses) |-> responses[i].key]

\* C29 as claimed: no two responses of a Method of a returned Model have the same
\* status key, also when the operation declares a default response and a response XXX
StatusKeysDistinct ==
  (pc = "done" /\ result.ok) =>
     \A k \in 1..Len(result.value.operations) :
        NoRepeats(StatusKeysOf(result.value.operations[k].responses))

\* C30 as claimed: every Method of a returned Model has at least one server, also
\* when a path item or an operation declares servers as an empty list
ServersNonEmpty ==
  (pc = "done" /\ result.ok) =>
     \A k \in 1..Len(result.value.operations) : result.value.operations[k].servers # <<>>

====
